---------------------------- MODULE Spec2Model ----------------------------
(***************************************************************************)
(* Model of the prompt definition compiler of evmts/agent                  *)
(* (src/server/prompt-parser/src/lib.rs): the frontmatter splitter, the     *)
(* type-shorthand parser and its lowering to JSON Schema, the YAML schema   *)
(* compiler and the prompt definition assembler.                            *)
(*                                                                         *)
(* Text is modelled as a sequence of one-character strings, so that        *)
(* trimming, suffix tests and splitting are computed character by           *)
(* character as the Rust code computes them.                                *)
(***************************************************************************)
EXTENDS Integers, Sequences, FiniteSets, TLC

VARIABLES
    op,         \* the operation that has run last
    arg,        \* the inputs of the call
    typedef,    \* the TypeDef at hand
    ret,        \* what the call has returned
    locals,     \* the local variables of the calls that are under way
    heap        \* the allocations handed out and not yet released

vars == <<op, arg, typedef, ret, locals, heap>>

-----------------------------------------------------------------------------
(* Bounds of the model *)

\* documents are concatenations of at most this many atoms of DocAtoms
MaxDocAtoms == 5
\* frontmatter texts of the round-trip documents: at most this many atoms
MaxFmAtoms == 2
\* body texts of the round-trip documents: at most this many atoms
MaxBodyAtoms == 3

-----------------------------------------------------------------------------
(* Text helpers (Rust str methods used by the code) *)

LF == "\n"
CR == "\r"

\* char::is_whitespace, restricted to the characters of the model
IsWhitespace(c) == c \in {" ", "\t", LF, CR}

Front(s) == SubSeq(s, 1, Len(s) - 1)

RECURSIVE Flatten(_)
\* concatenation of a sequence of texts
Flatten(ss) == IF ss = <<>> THEN <<>> ELSE Head(ss) \o Flatten(Tail(ss))

RECURSIVE trim_start(_)
trim_start(s) ==
    IF s # <<>> /\ IsWhitespace(Head(s)) THEN trim_start(Tail(s)) ELSE s

RECURSIVE trim_end(_)
trim_end(s) ==
    IF s # <<>> /\ IsWhitespace(s[Len(s)]) THEN trim_end(Front(s)) ELSE s

\* str::trim
trim(s) == trim_end(trim_start(s))

\* str::starts_with
starts_with(s, p) == Len(s) >= Len(p) /\ SubSeq(s, 1, Len(p)) = p

\* str::ends_with
ends_with(s, p) ==
    Len(s) >= Len(p) /\ SubSeq(s, Len(s) - Len(p) + 1, Len(s)) = p

\* str::contains for a single character
contains(s, c) == \E i \in 1..Len(s) : s[i] = c

\* a line of str::lines that ended in "\n" also loses a "\r" before it
StripCR(l) == IF l # <<>> /\ l[Len(l)] = CR THEN Front(l) ELSE l

RECURSIVE LinesFrom(_, _, _)
LinesFrom(s, i, cur) ==
    IF i > Len(s)
    THEN (IF cur = <<>> THEN <<>> ELSE <<cur>>)
    ELSE IF s[i] = LF
         THEN <<StripCR(cur)>> \o LinesFrom(s, i + 1, <<>>)
         ELSE LinesFrom(s, i + 1, Append(cur, s[i]))

\* str::lines: split at "\n" or "\r\n"; a final empty line is not a line
lines(s) == LinesFrom(s, 1, <<>>)

RECURSIVE join(_, _)
\* [&str]::join
join(ls, sep) ==
    IF ls = <<>> THEN <<>>
    ELSE IF Len(ls) = 1 THEN ls[1]
    ELSE ls[1] \o sep \o join(Tail(ls), sep)

Dashes == <<"-", "-", "-">>

-----------------------------------------------------------------------------
(* Results *)

Err(kind, msg) == [ok |-> FALSE, err |-> kind, msg |-> msg]

Pending == [pending |-> TRUE]

\* the heap: the blocks that are live, and whether a release has touched
\* a block that was not
EmptyHeap == [live |-> {}, faulted |-> FALSE]

MsgMissingOpen == "Missing frontmatter delimiter (---) at start of file"
MsgMissingClose == "Missing closing frontmatter delimiter (---)"

-----------------------------------------------------------------------------
(* split_frontmatter *)

RECURSIVE position_last_delim(_, _)
\* Variant: the last delimiter line closes the frontmatter, not the first
position_last_delim(ls, i) ==
    IF i > Len(ls) THEN 0
    ELSE LET later == position_last_delim(ls, i + 1)
         IN  IF later # 0 THEN later
             ELSE IF starts_with(trim(ls[i]), Dashes) THEN i ELSE 0

RECURSIVE position_delim(_, _)
\* lines[1..].iter().position(|line| line.trim().starts_with("---")), as the
\* index into lines (0-based index i of the code is i + 1 here); 0 when none
position_delim(ls, i) ==
    IF i > Len(ls) THEN 0
    ELSE IF starts_with(trim(ls[i]), Dashes) THEN i
    ELSE position_delim(ls, i + 1)

\* Variant: the body is trimmed before it is returned
split_frontmatter_trim_body(content) ==
    LET ls == lines(content)
        end_idx == position_delim(ls, 2)
    IN  IF ls = <<>> \/ ~starts_with(trim(ls[1]), Dashes)
        THEN Err("InvalidSchema", MsgMissingOpen)
        ELSE IF end_idx = 0
        THEN Err("InvalidSchema", MsgMissingClose)
        ELSE [ok |-> TRUE,
              frontmatter |-> join(SubSeq(ls, 2, end_idx - 1), <<LF>>),
              body |-> trim(join(SubSeq(ls, end_idx + 1, Len(ls)), <<LF>>))]

\* Variant: a document without delimiters is all body
split_frontmatter_lenient(content) ==
    LET ls == lines(content)
        end_idx == position_delim(ls, 2)
    IN  IF ls = <<>> \/ ~starts_with(trim(ls[1]), Dashes) \/ end_idx = 0
        THEN [ok |-> TRUE, frontmatter |-> <<>>, body |-> join(ls, <<LF>>)]
        ELSE [ok |-> TRUE,
              frontmatter |-> join(SubSeq(ls, 2, end_idx - 1), <<LF>>),
              body |-> join(SubSeq(ls, end_idx + 1, Len(ls)), <<LF>>)]

split_frontmatter(content) ==
    LET ls == lines(content)
    IN  IF ls = <<>> \/ ~starts_with(trim(ls[1]), Dashes)
        THEN Err("InvalidSchema", MsgMissingOpen)
        ELSE LET end_idx == position_delim(ls, 2)
             IN  IF end_idx = 0
                 THEN Err("InvalidSchema", MsgMissingClose)
                 ELSE [ok |-> TRUE,
                       frontmatter |-> join(SubSeq(ls, 2, end_idx - 1), <<LF>>),
                       body |-> join(SubSeq(ls, end_idx + 1, Len(ls)), <<LF>>)]

-----------------------------------------------------------------------------
(* Inputs of the splitter *)

\* all sequences over A of length at most n
SeqsUpTo(A, n) == UNION {[1..k -> A] : k \in 0..n}

DocAtoms == {Dashes, <<"-">>, <<LF>>, <<" ">>, <<"a">>, <<CR>>}
TextAtoms == {Dashes, <<LF>>, <<" ">>, <<"a">>, <<CR>>}

Docs == {Flatten(x) : x \in SeqsUpTo(DocAtoms, MaxDocAtoms)}
FmTexts == {Flatten(x) : x \in SeqsUpTo(TextAtoms, MaxFmAtoms)}
BodyTexts == {Flatten(x) : x \in SeqsUpTo(TextAtoms, MaxBodyAtoms)}

\* the document "---\n" + F + "\n---\n" + B
BuildDoc(F, B) == Dashes \o <<LF>> \o F \o <<LF>> \o Dashes \o <<LF>> \o B

\* arbitrary documents
RawInputs ==
    {[content |-> d, built |-> FALSE, F |-> <<>>, B |-> <<>>] : d \in Docs}

\* documents built from a frontmatter text F and a body text B
BuiltInputs ==
    {[content |-> BuildDoc(f, b), built |-> TRUE, F |-> f, B |-> b] :
        f \in FmTexts, b \in BodyTexts}

InitSplit ==
    /\ op = "none"
    /\ (arg \in RawInputs \/ arg \in BuiltInputs)
    /\ typedef = Pending
    /\ ret = Pending
    /\ locals = Pending
    /\ heap = EmptyHeap

Call_split_frontmatter ==
    /\ op = "none"
    /\ op' = "split_frontmatter"
    /\ ret' = split_frontmatter(arg.content)
    /\ UNCHANGED <<arg, typedef, locals, heap>>

NextSplit == Call_split_frontmatter

SpecSplit == InitSplit /\ [][NextSplit]_vars

-----------------------------------------------------------------------------
(* Claims about split_frontmatter *)

IsDelimLine(l) == starts_with(trim(l), Dashes)

SplitDone == op = "split_frontmatter"

\* C1: a text with no lines, or whose first line trimmed does not start with
\* ---, fails with InvalidSchema (missing opening delimiter); a text whose
\* first line is a delimiter but that has no later line starting, trimmed,
\* with --- fails with InvalidSchema (missing closing delimiter); neither is
\* accepted with the whole text as body.
C1_MissingDelimiterFails ==
    SplitDone =>
        LET ls == lines(arg.content)
            noOpen == ls = <<>> \/ ~IsDelimLine(ls[1])
            noClose == \A i \in 2..Len(ls) : ~IsDelimLine(ls[i])
        IN  /\ noOpen => ret = Err("InvalidSchema", MsgMissingOpen)
            /\ (~noOpen /\ noClose) => ret = Err("InvalidSchema", MsgMissingClose)
            /\ (noOpen \/ noClose) => ~ret.ok

\* C1 witness: a document with an opening delimiter and content but no
\* closing delimiter has been rejected
C1_Witness ==
    /\ SplitDone
    /\ Len(lines(arg.content)) >= 2
    /\ ret = Err("InvalidSchema", MsgMissingClose)

\* the pieces of s between occurrences of the character c
RECURSIVE PiecesFrom(_, _, _, _)
PiecesFrom(s, c, i, cur) ==
    IF i > Len(s) THEN <<cur>>
    ELSE IF s[i] = c THEN <<cur>> \o PiecesFrom(s, c, i + 1, <<>>)
    ELSE PiecesFrom(s, c, i + 1, Append(cur, s[i]))

Pieces(s, c) == PiecesFrom(s, c, 1, <<>>)

\* no carriage return that a line ending would swallow
NoLineEndCR(s) ==
    \A i \in 1..Len(s) : s[i] = CR => (i < Len(s) /\ s[i + 1] # LF)

RoundTripSafe(F, B) ==
    /\ \A i \in 1..Len(Pieces(F, LF)) : ~IsDelimLine(Pieces(F, LF)[i])
    /\ NoLineEndCR(F)
    /\ NoLineEndCR(B)
    /\ (B = <<>> \/ B[Len(B)] # LF)

\* C2 as stated: for every F and B, splitting "---\n" + F + "\n---\n" + B
\* returns exactly (F, B).
C2_RoundTripAny ==
    (SplitDone /\ arg.built) =>
        (ret.ok /\ ret.frontmatter = arg.F /\ ret.body = arg.B)

\* C2 amended: the round trip recovers (F, B) exactly when no line of F
\* starts, trimmed, with ---, neither text has a carriage return before a
\* line feed or at its end, and B does not end with a line feed.
C2_RoundTrip ==
    (SplitDone /\ arg.built /\ RoundTripSafe(arg.F, arg.B)) =>
        (ret.ok /\ ret.frontmatter = arg.F /\ ret.body = arg.B)

\* C2 witness: a built document with multi-line frontmatter and body
\* has been split back into its parts
C2_Witness ==
    /\ SplitDone /\ arg.built /\ RoundTripSafe(arg.F, arg.B)
    /\ contains(arg.F, LF) /\ contains(arg.B, LF) /\ contains(arg.B, " ")
    /\ ret.ok /\ ret.frontmatter = arg.F /\ ret.body = arg.B

RECURSIVE AfterLines(_, _)
\* the text after the first n line feeds of s, unchanged
AfterLines(s, n) ==
    IF n = 0 \/ s = <<>> THEN s
    ELSE IF Head(s) = LF THEN AfterLines(Tail(s), n - 1)
    ELSE AfterLines(Tail(s), n)

\* C3 as stated: a document is accepted only if its first line trims to
\* exactly ---, the closing delimiter is the next line that trims to exactly
\* ---, and everything after the closing line is the body, verbatim.
C3_ExactDelimiters ==
    (SplitDone /\ ret.ok) =>
        LET ls == lines(arg.content)
        IN  /\ trim(ls[1]) = Dashes
            /\ \E c \in 2..Len(ls) :
                /\ trim(ls[c]) = Dashes
                /\ \A j \in 2..(c - 1) : trim(ls[j]) # Dashes
                /\ ret.frontmatter = join(SubSeq(ls, 2, c - 1), <<LF>>)
                /\ ret.body = AfterLines(arg.content, c)

\* C3 amended: a document is accepted only if its first line, trimmed,
\* starts with ---; the closing delimiter is the next line that, trimmed,
\* starts with ---; the lines after it are the body, joined by "\n" (a
\* "\r\n" ending becomes "\n" and the final line ending is dropped).
C3_PrefixDelimiters ==
    (SplitDone /\ ret.ok) =>
        LET ls == lines(arg.content)
        IN  /\ ls # <<>> /\ IsDelimLine(ls[1])
            /\ \E c \in 2..Len(ls) :
                /\ IsDelimLine(ls[c])
                /\ \A j \in 2..(c - 1) : ~IsDelimLine(ls[j])
                /\ ret.frontmatter = join(SubSeq(ls, 2, c - 1), <<LF>>)
                /\ ret.body = join(SubSeq(ls, c + 1, Len(ls)), <<LF>>)
                /\ ret.body = join(lines(AfterLines(arg.content, c)), <<LF>>)

\* C3 witness: an accepted document with two delimiter lines after the
\* opening one and a non-empty body
C3_Witness ==
    /\ SplitDone /\ ret.ok /\ ret.body # <<>>
    /\ LET ls == lines(arg.content)
       IN  \E c, d \in 2..Len(ls) : c < d /\ IsDelimLine(ls[c]) /\ IsDelimLine(ls[d])

-----------------------------------------------------------------------------
(* TypeDef: the type-shorthand parser and its lowering to JSON Schema *)

\* shorthand strings are concatenations of at most this many atoms
MaxShorthandAtoms == 4

Simple(name) == [kind |-> "Simple", name |-> name]
Optional(inner) == [kind |-> "Optional", inner |-> inner]
Array(inner) == [kind |-> "Array", inner |-> inner]
Enum(variants) == [kind |-> "Enum", variants |-> variants]
\* a HashMap of fields: the mapping, and the order in which this map's
\* iter() yields its keys (some permutation of them, fixed for the map)
Object(fields, iter) == [kind |-> "Object", fields |-> fields, iter |-> iter]

Str_string == <<"s", "t", "r", "i", "n", "g">>
Str_integer == <<"i", "n", "t", "e", "g", "e", "r">>
Str_float == <<"f", "l", "o", "a", "t">>
Str_number == <<"n", "u", "m", "b", "e", "r">>
Str_boolean == <<"b", "o", "o", "l", "e", "a", "n">>

RECURSIVE split(_, _)
\* str::split(c): the pieces between occurrences of c, empty pieces included
split(s, c) ==
    IF ~contains(s, c) THEN <<s>>
    ELSE LET i == CHOOSE k \in 1..Len(s) :
                    s[k] = c /\ \A j \in 1..(k - 1) : s[j] # c
         IN  <<SubSeq(s, 1, i - 1)>> \o split(SubSeq(s, i + 1, Len(s)), c)

\* .map(|v| v.trim().to_string()).collect()
map_trim(ps) == [i \in 1..Len(ps) |-> trim(ps[i])]

RECURSIVE dedup(_)
dedup(vs) ==
    IF vs = <<>> THEN <<>>
    ELSE LET rest == dedup(Front(vs))
         IN  IF \E i \in 1..Len(rest) : rest[i] = vs[Len(vs)]
             THEN rest ELSE Append(rest, vs[Len(vs)])

RECURSIVE from_str(_)

\* Variant: the input is not trimmed
from_str_no_trim(s) ==
    IF ends_with(s, <<"?">>)
    THEN Optional(from_str(SubSeq(s, 1, Len(s) - 1)))
    ELSE IF ends_with(s, <<"[", "]">>)
    THEN Array(from_str(SubSeq(s, 1, Len(s) - 2)))
    ELSE IF contains(s, "|")
    THEN Enum(map_trim(split(s, "|")))
    ELSE Simple(s)

\* Variant: the enum test comes before the suffix tests
from_str_enum_first(str) ==
    LET s == trim(str)
    IN  IF contains(s, "|")
        THEN Enum(map_trim(split(s, "|")))
        ELSE IF ends_with(s, <<"?">>)
        THEN Optional(from_str(SubSeq(s, 1, Len(s) - 1)))
        ELSE IF ends_with(s, <<"[", "]">>)
        THEN Array(from_str(SubSeq(s, 1, Len(s) - 2)))
        ELSE Simple(s)

\* Variant: the array suffix is cut by one character instead of two
from_str_short_cut(str) ==
    LET s == trim(str)
    IN  IF ends_with(s, <<"?">>)
        THEN Optional(from_str(SubSeq(s, 1, Len(s) - 1)))
        ELSE IF ends_with(s, <<"[", "]">>)
        THEN Array(from_str(SubSeq(s, 1, Len(s) - 1)))
        ELSE IF contains(s, "|")
        THEN Enum(map_trim(split(s, "|")))
        ELSE Simple(s)

\* Variant: repeated enum variants are dropped
from_str_dedup(str) ==
    LET s == trim(str)
    IN  IF ends_with(s, <<"?">>)
        THEN Optional(from_str(SubSeq(s, 1, Len(s) - 1)))
        ELSE IF ends_with(s, <<"[", "]">>)
        THEN Array(from_str(SubSeq(s, 1, Len(s) - 2)))
        ELSE IF contains(s, "|")
        THEN Enum(dedup(map_trim(split(s, "|"))))
        ELSE Simple(s)

\* TypeDef::from_str
from_str(str) ==
    LET s == trim(str)
    IN  IF ends_with(s, <<"?">>)
        THEN Optional(from_str(SubSeq(s, 1, Len(s) - 1)))
        ELSE IF ends_with(s, <<"[", "]">>)
        THEN Array(from_str(SubSeq(s, 1, Len(s) - 2)))
        ELSE IF contains(s, "|")
        THEN Enum(map_trim(split(s, "|")))
        ELSE Simple(s)

\* Variant: `float` is not folded into `number`
type_name_float(s) ==
    IF s = Str_string THEN "string"
    ELSE IF s = Str_integer THEN "integer"
    ELSE IF s = Str_float THEN "float"
    ELSE IF s = Str_number THEN "number"
    ELSE IF s = Str_boolean THEN "boolean"
    ELSE "string"

\* the match of to_json_schema on a Simple name
type_name(s) ==
    IF s = Str_string THEN "string"
    ELSE IF s = Str_integer THEN "integer"
    ELSE IF s = Str_float \/ s = Str_number THEN "number"
    ELSE IF s = Str_boolean THEN "boolean"
    ELSE "string"

\* .filter(..).map(|(k, _)| k.clone()).collect() over a key order
RECURSIVE filter_keys(_, _)
filter_keys(keys, fields) ==
    IF keys = <<>> THEN <<>>
    ELSE IF fields[Head(keys)].kind # "Optional"
         THEN <<Head(keys)>> \o filter_keys(Tail(keys), fields)
         ELSE filter_keys(Tail(keys), fields)

RECURSIVE to_json_schema(_)
\* TypeDef::to_json_schema
to_json_schema(t) ==
    CASE t.kind = "Simple" -> [type |-> type_name(t.name)]
      [] t.kind = "Optional" ->
            [anyOf |-> <<to_json_schema(t.inner), [type |-> "null"]>>]
      [] t.kind = "Array" ->
            [type |-> "array", items |-> to_json_schema(t.inner)]
      [] t.kind = "Enum" -> [type |-> "string", enum |-> t.variants]
      [] t.kind = "Object" ->
            [type |-> "object",
             properties |->
                [k \in DOMAIN t.fields |-> to_json_schema(t.fields[k])],
             required |-> filter_keys(t.iter, t.fields)]

ShorthandAtoms ==
    {Str_string, Str_integer, <<"a">>, <<" ">>, <<"?">>, <<"[">>, <<"]">>,
     <<"|">>}

Shorthands == {Flatten(x) : x \in SeqsUpTo(ShorthandAtoms, MaxShorthandAtoms)}

InitTypeDef ==
    /\ op = "none"
    /\ arg \in {[s |-> x] : x \in Shorthands}
    /\ typedef = Pending
    /\ ret = Pending
    /\ locals = Pending
    /\ heap = EmptyHeap

Call_from_str ==
    /\ op = "none"
    /\ op' = "from_str"
    /\ typedef' = from_str(arg.s)
    /\ UNCHANGED <<arg, ret, locals, heap>>

Call_to_json_schema ==
    /\ op = "from_str"
    /\ op' = "to_json_schema"
    /\ ret' = to_json_schema(typedef)
    /\ UNCHANGED <<arg, typedef, locals, heap>>

NextTypeDef == Call_from_str \/ Call_to_json_schema

SpecTypeDef == InitTypeDef /\ [][NextTypeDef]_vars

-----------------------------------------------------------------------------
(* Claims about from_str and to_json_schema *)

Parsed == op \in {"from_str", "to_json_schema"}
Lowered == op = "to_json_schema"

\* s has the two characters "[]" next to each other somewhere
HasBrackets(s) == \E i \in 1..(Len(s) - 1) : s[i] = "[" /\ s[i + 1] = "]"

PlainShorthand(s) == ~contains(s, "?") /\ ~HasBrackets(s) /\ ~contains(s, "|")

\* C4 as stated: for every s without ?, [] and |, from_str(s) is Simple(s),
\* carrying exactly s.
C4_SimpleExact ==
    (Parsed /\ PlainShorthand(arg.s)) => typedef = Simple(arg.s)

\* characters of s from the first to the last one that is not whitespace
Core(s) ==
    LET idx == {i \in 1..Len(s) : ~IsWhitespace(s[i])}
    IN  IF idx = {} THEN <<>>
        ELSE SubSeq(s, CHOOSE i \in idx : \A j \in idx : i <= j,
                       CHOOSE i \in idx : \A j \in idx : i >= j)

\* C4 amended: for every s without ?, [] and |, from_str(s) is Simple of s
\* with its leading and trailing whitespace removed.
C4_SimpleTrimmed ==
    (Parsed /\ PlainShorthand(arg.s)) => typedef = Simple(Core(arg.s))

\* C4 witness: a plain shorthand with surrounding whitespace has been parsed
C4_Witness ==
    /\ Parsed /\ PlainShorthand(arg.s)
    /\ Core(arg.s) # arg.s /\ Core(arg.s) # <<>>
    /\ typedef.kind = "Simple"

\* C5: for every s, from_str(s + "?") is Optional(from_str(s)), and its
\* lowering is {"anyOf": [X, {"type": "null"}]} with X the lowering of
\* from_str(s).
C5_OptionalSuffix ==
    (Parsed /\ ends_with(arg.s, <<"?">>)) =>
        LET s == Front(arg.s)
        IN  /\ typedef = Optional(from_str(s))
            /\ Lowered =>
                ret = [anyOf |-> <<to_json_schema(from_str(s)), [type |-> "null"]>>]

\* C5 witness: s + "?" with s an enum shorthand has been parsed and lowered
C5_Witness ==
    /\ Lowered /\ ends_with(arg.s, <<"?">>) /\ contains(arg.s, "|")
    /\ typedef.kind = "Optional" /\ typedef.inner.kind = "Enum"
    /\ DOMAIN ret = {"anyOf"}

\* C6: for every s, from_str(s + "[]") is Array(from_str(s)).
C6_ArraySuffix ==
    (Parsed /\ ends_with(arg.s, <<"[", "]">>)) =>
        typedef = Array(from_str(SubSeq(arg.s, 1, Len(arg.s) - 2)))

\* C6 witness: s + "[]" with s an optional shorthand has been parsed
C6_Witness ==
    /\ Parsed /\ ends_with(arg.s, <<"[", "]">>)
    /\ typedef.kind = "Array" /\ typedef.inner.kind = "Optional"

\* the positions of the character c in s, in increasing order
RECURSIVE PositionsFrom(_, _, _)
PositionsFrom(s, c, i) ==
    IF i > Len(s) THEN <<>>
    ELSE IF s[i] = c THEN <<i>> \o PositionsFrom(s, c, i + 1)
    ELSE PositionsFrom(s, c, i + 1)

\* C7: for every s that contains | and, trimmed, ends with neither ? nor [],
\* from_str(s) is Enum(variants), where variants has one entry per
\* |-separated piece of s (number of | plus one, so never empty), the i-th
\* entry being the i-th piece trimmed, duplicates kept.
C7_EnumVariants ==
    (Parsed /\ contains(arg.s, "|")
        /\ ~ends_with(Core(arg.s), <<"?">>)
        /\ ~ends_with(Core(arg.s), <<"[", "]">>)) =>
        LET bars == PositionsFrom(arg.s, "|", 1)
            n == Len(bars)
            lo(i) == IF i = 1 THEN 1 ELSE bars[i - 1] + 1
            hi(i) == IF i = n + 1 THEN Len(arg.s) ELSE bars[i] - 1
        IN  /\ typedef.kind = "Enum"
            /\ Len(typedef.variants) = n + 1
            /\ \A i \in 1..(n + 1) :
                  typedef.variants[i] = Core(SubSeq(arg.s, lo(i), hi(i)))

\* C7 witness: an enum shorthand with a repeated variant has been parsed
C7_Witness ==
    /\ Parsed /\ typedef.kind = "Enum"
    /\ Len(typedef.variants) = 2
    /\ typedef.variants[1] = typedef.variants[2]
    /\ typedef.variants[1] # <<>>
    /\ arg.s # Core(arg.s)

-----------------------------------------------------------------------------
(* The YAML schema compiler: parse_schema, parse_schema_value *)

\* mappings of the model have at most this many entries
MaxFields == 3
\* sequences of the model have at most this many elements
MaxSeqLen == 2

\* serde_yaml::Value
YString(s) == [kind |-> "String", s |-> s]
YNumber(n) == [kind |-> "Number", n |-> n]
\* entries: the (key, value) pairs in declaration order, keys distinct
YMapping(entries) == [kind |-> "Mapping", entries |-> entries]
YSequence(items) == [kind |-> "Sequence", items |-> items]
YBool(b) == [kind |-> "Bool", b |-> b]
YNull == [kind |-> "Null"]
YTagged(tag, value) == [kind |-> "Tagged", tag |-> tag, value |-> value]

None == [some |-> FALSE]
Some(v) == [some |-> TRUE, v |-> v]

Ok(schema) == [ok |-> TRUE, schema |-> schema]

\* serde_json::json!({})
EmptyObject == <<>>

MsgNonStringKey == "Non-string key in schema"
MsgArraySchema ==
    "Array schema must have exactly one element defining the item type"

ErrUnsupported(value) ==
    [ok |-> FALSE, err |-> "InvalidSchema", msg |-> "Unsupported YAML type",
     value |-> value]

\* Variant: every branch of the anyOf must be the null type
is_optional_schema_all(schema) ==
    IF "anyOf" \in DOMAIN schema
    THEN \A i \in DOMAIN schema.anyOf :
            "type" \in DOMAIN schema.anyOf[i] /\ schema.anyOf[i].type = "null"
    ELSE FALSE

RECURSIVE is_optional_schema_items(_)
\* Variant: an array schema is optional when its items are
is_optional_schema_items(schema) ==
    IF "anyOf" \in DOMAIN schema
    THEN \E i \in DOMAIN schema.anyOf :
            "type" \in DOMAIN schema.anyOf[i] /\ schema.anyOf[i].type = "null"
    ELSE IF "items" \in DOMAIN schema
    THEN is_optional_schema_items(schema.items)
    ELSE FALSE

is_optional_schema(schema) ==
    IF "anyOf" \in DOMAIN schema
    THEN \E i \in DOMAIN schema.anyOf :
            "type" \in DOMAIN schema.anyOf[i] /\ schema.anyOf[i].type = "null"
    ELSE FALSE

RECURSIVE parse_schema_value(_)
RECURSIVE parse_mapping(_, _, _, _)

\* Variant: the value of an entry is compiled before its key is tested
parse_mapping_value_first(m, i, properties, required) ==
    IF i > Len(m)
    THEN Ok([type |-> "object", properties |-> properties,
             required |-> required])
    ELSE LET k == m[i][1]
             v == m[i][2]
             prop == parse_schema_value(v)
         IN  IF ~prop.ok THEN prop
             ELSE IF k.kind # "String"
             THEN Err("InvalidSchema", MsgNonStringKey)
             ELSE parse_mapping(m, i + 1,
                     (k.s :> prop.schema) @@ properties,
                     IF ~is_optional_schema(prop.schema)
                     THEN Append(required, k.s) ELSE required)

\* the loop "for (k, v) in m" of parse_schema_value, from entry i on, with
\* the properties and required names collected so far
parse_mapping(m, i, properties, required) ==
    IF i > Len(m)
    THEN Ok([type |-> "object", properties |-> properties,
             required |-> required])
    ELSE LET k == m[i][1]
             v == m[i][2]
         IN  IF k.kind # "String"
             THEN Err("InvalidSchema", MsgNonStringKey)
             ELSE LET prop == parse_schema_value(v)
                  IN  IF ~prop.ok THEN prop
                      ELSE parse_mapping(m, i + 1,
                              (k.s :> prop.schema) @@ properties,
                              IF ~is_optional_schema(prop.schema)
                              THEN Append(required, k.s) ELSE required)

\* Variant: a sequence with more than one element is taken by its first
parse_schema_value_first_item(value) ==
    CASE value.kind = "String" -> Ok(to_json_schema(from_str(value.s)))
      [] value.kind = "Mapping" -> parse_mapping(value.entries, 1, <<>>, <<>>)
      [] value.kind = "Sequence" ->
            IF Len(value.items) >= 1
            THEN LET item == parse_schema_value(value.items[1])
                 IN  IF ~item.ok THEN item
                     ELSE Ok([type |-> "array", items |-> item.schema])
            ELSE Err("InvalidSchema", MsgArraySchema)
      [] OTHER -> ErrUnsupported(value)

\* A shorthand follows the grammar <primitive>, <shorthand>?,
\* <shorthand>[], <v1> | <v2> | ... when no primitive name and no enum
\* variant in it is empty
RECURSIVE WellFormedShorthand(_)
WellFormedShorthand(str) ==
    LET s == trim(str)
    IN  IF ends_with(s, <<"?">>)
        THEN WellFormedShorthand(SubSeq(s, 1, Len(s) - 1))
        ELSE IF ends_with(s, <<"[", "]">>)
        THEN WellFormedShorthand(SubSeq(s, 1, Len(s) - 2))
        ELSE IF contains(s, "|")
        THEN \A i \in DOMAIN split(s, "|") : trim(split(s, "|")[i]) # <<>>
        ELSE s # <<>>

\* Variant: a shorthand with an empty name or variant is rejected
parse_schema_value_strict(value) ==
    CASE value.kind = "String" ->
            IF WellFormedShorthand(value.s)
            THEN Ok(to_json_schema(from_str(value.s)))
            ELSE Err("InvalidSchema", "Malformed shorthand")
      [] value.kind = "Mapping" -> parse_mapping(value.entries, 1, <<>>, <<>>)
      [] value.kind = "Sequence" ->
            IF Len(value.items) = 1
            THEN LET item == parse_schema_value(value.items[1])
                 IN  IF ~item.ok THEN item
                     ELSE Ok([type |-> "array", items |-> item.schema])
            ELSE Err("InvalidSchema", MsgArraySchema)
      [] OTHER -> ErrUnsupported(value)

\* Variant: a node of any other kind is taken as the string type
parse_schema_value_lenient(value) ==
    CASE value.kind = "String" -> Ok(to_json_schema(from_str(value.s)))
      [] value.kind = "Mapping" -> parse_mapping(value.entries, 1, <<>>, <<>>)
      [] value.kind = "Sequence" ->
            IF Len(value.items) = 1
            THEN LET item == parse_schema_value(value.items[1])
                 IN  IF ~item.ok THEN item
                     ELSE Ok([type |-> "array", items |-> item.schema])
            ELSE Err("InvalidSchema", MsgArraySchema)
      [] OTHER -> Ok([type |-> "string"])

parse_schema_value(value) ==
    CASE value.kind = "String" -> Ok(to_json_schema(from_str(value.s)))
      [] value.kind = "Mapping" -> parse_mapping(value.entries, 1, <<>>, <<>>)
      [] value.kind = "Sequence" ->
            IF Len(value.items) = 1
            THEN LET item == parse_schema_value(value.items[1])
                 IN  IF ~item.ok THEN item
                     ELSE Ok([type |-> "array", items |-> item.schema])
            ELSE Err("InvalidSchema", MsgArraySchema)
      [] OTHER -> ErrUnsupported(value)

parse_schema(yaml) ==
    IF ~yaml.some THEN Ok(EmptyObject) ELSE parse_schema_value(yaml.v)

(* Inputs of the schema compiler *)

Str_a == <<"a">>
Str_b == <<"b">>
Str_c == <<"c">>

YamlKeys == {YString(Str_a), YString(Str_b), YString(Str_c), YNumber(7)}

\* the values of mapping fields and sequence elements
FieldValues ==
    {YString(Str_string),
     YString(Str_string \o <<"?">>),
     YNumber(7),
     YSequence(<<YString(Str_string \o <<"?">>)>>),
     YSequence(<<>>),
     YMapping(<<<<YString(Str_a), YString(Str_integer \o <<"?">>)>>>>),
     YMapping(<<<<YString(Str_b), YNumber(8)>>>>)}

IsInjective(q) == \A i, j \in 1..Len(q) : q[i] = q[j] => i = j

YamlMappings ==
    {YMapping([i \in 1..Len(ks) |-> <<ks[i], vs[i]>>]) :
        <<ks, vs>> \in {p \in SeqsUpTo(YamlKeys, MaxFields)
                              \X SeqsUpTo(FieldValues, MaxFields) :
                          Len(p[1]) = Len(p[2]) /\ IsInjective(p[1])}}

YamlSequences == {YSequence(q) : q \in SeqsUpTo(FieldValues, MaxSeqLen)}

\* nodes that are neither string, mapping nor sequence
OtherNodes ==
    {YNumber(7), YBool(TRUE), YNull, YTagged("t", YString(Str_string))}

\* a node of another kind at the top and nested one to three levels deep
NestedOtherNodes ==
    UNION {{v,
            YSequence(<<v>>),
            YMapping(<<<<YString(Str_a), v>>>>),
            YSequence(<<YSequence(<<v>>)>>),
            YSequence(<<YMapping(<<<<YString(Str_a), v>>>>)>>),
            YMapping(<<<<YString(Str_a), YSequence(<<v>>)>>>>),
            YMapping(<<<<YString(Str_a), YString(Str_string)>>,
                       <<YString(Str_b),
                         YMapping(<<<<YString(Str_c),
                                      YSequence(<<v>>)>>>>)>>>>)} :
           v \in OtherNodes}

InitSchema ==
    /\ op = "none"
    /\ \/ \E v \in FieldValues \cup YamlSequences : arg = [yaml |-> v]
       \/ \E v \in NestedOtherNodes : arg = [yaml |-> v]
       \/ \E m \in YamlMappings : arg = [yaml |-> m]
       \/ \E s \in Shorthands : arg = [yaml |-> YString(s)]
    /\ typedef = Pending
    /\ ret = Pending
    /\ locals = Pending
    /\ heap = EmptyHeap

Call_parse_schema_value ==
    /\ op = "none"
    /\ op' = "parse_schema_value"
    /\ ret' = parse_schema_value(arg.yaml)
    /\ UNCHANGED <<arg, typedef, locals, heap>>

\* parse_schema on a field that is present
Call_parse_schema ==
    /\ op = "none"
    /\ op' = "parse_schema"
    /\ ret' = parse_schema(Some(arg.yaml))
    /\ UNCHANGED <<arg, typedef, locals, heap>>

NextSchema == Call_parse_schema_value \/ Call_parse_schema

SpecSchema == InitSchema /\ [][NextSchema]_vars

-----------------------------------------------------------------------------
(* Claims about parse_schema_value *)

Compiled == op = "parse_schema_value"

\* the schema is {"anyOf": [...]} with a {"type": "null"} branch
NullUnion(schema) ==
    /\ "anyOf" \in DOMAIN schema
    /\ \E i \in 1..Len(schema.anyOf) :
          "type" \in DOMAIN schema.anyOf[i] /\ schema.anyOf[i].type = "null"

AllCompile(entries) ==
    \A i \in 1..Len(entries) :
        entries[i][1].kind = "String" /\ parse_schema_value(entries[i][2]).ok

\* the names, in declaration order, of the entries whose lowered schema is
\* not a null union
RequiredNames(entries) ==
    LET NotOptional(e) == ~NullUnion(parse_schema_value(e[2]).schema)
        kept == SelectSeq(entries, NotOptional)
    IN  [i \in 1..Len(kept) |-> kept[i][1].s]

\* C8: for every mapping whose values all compile, the object schema's
\* required array holds exactly the names of the fields whose lowered
\* schema is not an anyOf with a null branch, each once, in declaration
\* order; every field, optional or not, is in properties.
C8_RequiredInOrder ==
    (Compiled /\ arg.yaml.kind = "Mapping" /\ AllCompile(arg.yaml.entries)) =>
        LET es == arg.yaml.entries
        IN  /\ ret.ok
            /\ ret.schema.type = "object"
            /\ ret.schema.required = RequiredNames(es)
            /\ IsInjective(ret.schema.required)
            /\ DOMAIN ret.schema.properties = {es[i][1].s : i \in 1..Len(es)}
            /\ \A i \in 1..Len(es) :
                  ret.schema.properties[es[i][1].s] =
                      parse_schema_value(es[i][2]).schema

\* C8 witness: a mapping of three fields, the middle one optional, has been
\* compiled with the two others required
C8_Witness ==
    /\ Compiled /\ arg.yaml.kind = "Mapping" /\ ret.ok
    /\ Len(arg.yaml.entries) = 3
    /\ NullUnion(ret.schema.properties[arg.yaml.entries[2][1].s])
    /\ ret.schema.required =
          <<arg.yaml.entries[1][1].s, arg.yaml.entries[3][1].s>>

\* C9 as stated: a sequence with zero or two or more elements fails with
\* InvalidSchema, and a sequence with exactly one element succeeds with
\* {"type": "array", "items": <item schema>}.
C9_OneElementSucceeds ==
    (Compiled /\ arg.yaml.kind = "Sequence") =>
        IF Len(arg.yaml.items) = 1
        THEN /\ ret.ok
             /\ DOMAIN ret.schema = {"type", "items"}
             /\ ret.schema.type = "array"
        ELSE ~ret.ok /\ ret.err = "InvalidSchema"

\* C9 amended: a sequence with zero or two or more elements fails with
\* InvalidSchema; a sequence with exactly one element succeeds with
\* {"type": "array", "items": <item schema>} when that element compiles,
\* and fails with the element's own error when it does not.
C9_SequenceArity ==
    (Compiled /\ arg.yaml.kind = "Sequence") =>
        IF Len(arg.yaml.items) = 1
        THEN LET item == parse_schema_value(arg.yaml.items[1])
             IN  IF item.ok
                 THEN ret = Ok([type |-> "array", items |-> item.schema])
                 ELSE ret = item /\ ret.err = "InvalidSchema"
        ELSE ret = Err("InvalidSchema", MsgArraySchema)

\* C9 witness: a sequence of two elements that both compile has been
\* rejected
C9_Witness ==
    /\ Compiled /\ arg.yaml.kind = "Sequence"
    /\ Len(arg.yaml.items) = 2
    /\ \A i \in 1..2 : parse_schema_value(arg.yaml.items[i]).ok
    /\ ret = Err("InvalidSchema", MsgArraySchema)

CompiledField == op = "parse_schema"

\* every structural error of a schema value, in the order of a depth-first
\* traversal: a node before its children, the entries of a mapping in
\* declaration order, the key of an entry before its value
RECURSIVE StructuralErrors(_)
RECURSIVE EntryErrors(_, _)
EntryErrors(m, i) ==
    IF i > Len(m) THEN <<>>
    ELSE (IF m[i][1].kind # "String"
          THEN <<Err("InvalidSchema", MsgNonStringKey)>> ELSE <<>>)
         \o StructuralErrors(m[i][2]) \o EntryErrors(m, i + 1)

StructuralErrors(value) ==
    CASE value.kind = "String" -> <<>>
      [] value.kind = "Mapping" -> EntryErrors(value.entries, 1)
      [] value.kind = "Sequence" ->
            IF Len(value.items) = 1 THEN StructuralErrors(value.items[1])
            ELSE <<Err("InvalidSchema", MsgArraySchema)>>
      [] OTHER -> <<ErrUnsupported(value)>>

\* C13: when a schema value contains several structural errors,
\* parse_schema returns the first one met in a depth-first traversal that
\* visits mapping keys in declaration order; a later error is never the one
\* reported, and a value without errors compiles.
C13_FirstErrorReported ==
    CompiledField =>
        LET errors == StructuralErrors(arg.yaml)
        IN  IF errors = <<>> THEN ret.ok ELSE ret = errors[1]

\* C13 witness: a mapping with three different structural errors, the
\* first of them inside a nested mapping, has been compiled
C13_Witness ==
    /\ CompiledField
    /\ Len(StructuralErrors(arg.yaml)) = 3
    /\ Cardinality({StructuralErrors(arg.yaml)[i] : i \in 1..3}) = 3
    /\ arg.yaml.kind = "Mapping"
    /\ arg.yaml.entries[1][2].kind = "Mapping"
    /\ StructuralErrors(arg.yaml.entries[1][2]) # <<>>
    /\ ~ret.ok

MalformedShorthand ==
    arg.yaml.kind = "String" /\ ~WellFormedShorthand(arg.yaml.s)

\* C14 as stated: a shorthand string that is malformed with respect to the
\* grammar (an empty primitive name, an enum with an empty variant) makes
\* the schema compilation of the field fail with InvalidSchema.
C14_MalformedRejected ==
    (CompiledField /\ MalformedShorthand) =>
        (~ret.ok /\ ret.err = "InvalidSchema")

\* C14 amended: a shorthand string never makes the compilation of the field
\* fail: an empty primitive name is compiled as the string type ("" to
\* {type: string}, "?" to anyOf[{type: string}, {type: null}], "[]" to an
\* array of strings) and an empty enum variant is kept as the variant "".
C14_MalformedAccepted ==
    (CompiledField /\ arg.yaml.kind = "String") =>
        LET s == trim(arg.yaml.s)
        IN  /\ ret.ok
            /\ s = <<>> => ret.schema = [type |-> "string"]
            /\ s = <<"?">> =>
                  ret.schema = [anyOf |-> <<[type |-> "string"],
                                            [type |-> "null"]>>]
            /\ s = <<"[", "]">> =>
                  ret.schema = [type |-> "array",
                                items |-> [type |-> "string"]]
            /\ (contains(s, "|") /\ ~ends_with(s, <<"?">>)
                    /\ ~ends_with(s, <<"[", "]">>)) =>
                  /\ ret.schema.type = "string"
                  /\ Len(ret.schema.enum) = Len(split(s, "|"))
                  /\ \A i \in DOMAIN ret.schema.enum :
                        ret.schema.enum[i] = trim(split(s, "|")[i])

\* C14 witness: the shorthand "a||a", an enum with an empty variant, has
\* been compiled
C14_Witness ==
    /\ CompiledField /\ MalformedShorthand
    /\ arg.yaml.s = <<"a", "|", "|", "a">>
    /\ ret.ok /\ ret.schema.enum = <<<<"a">>, <<>>, <<"a">>>>


-----------------------------------------------------------------------------
(* The prompt definition assembler: parse_prompt_file *)

DefaultClient == "anthropic/claude-sonnet"
DefaultPromptType == "llm"
DefaultMaxTurns == 10

\* The frontmatter text is decoded by serde_yaml, a library outside the
\* repository.  A call's input therefore carries, next to the document text,
\* the YAML document that the library reads from the frontmatter block:
\* wellformed (FALSE for text that is not YAML, or a field of the wrong
\* type) and the value of each key of struct Frontmatter, None when the key
\* is absent or null.

\* #[derive(Deserialize)] struct Frontmatter: name is a String, so it must
\* be present; the other fields are Options
deserialize_frontmatter(yaml) ==
    IF ~yaml.wellformed \/ ~yaml.name.some
    THEN [ok |-> FALSE, err |-> "YamlParse", line |-> 0]
    ELSE [ok |-> TRUE,
          v |-> [name |-> yaml.name.v,
                 client |-> yaml.client,
                 prompt_type |-> yaml.type,
                 inputs |-> yaml.inputs,
                 output |-> yaml.output,
                 tools |-> yaml.tools,
                 max_turns |-> yaml.max_turns,
                 extends |-> yaml.extends]]

\* Option::unwrap_or
unwrap_or(o, d) == IF o.some THEN o.v ELSE d

\* Variant: an absent max_turns becomes 1 and an absent type "agent"
PromptDefinition_other_defaults(fm, inputs_schema, output_schema, body) ==
    [name |-> fm.name,
     client |-> unwrap_or(fm.client, DefaultClient),
     prompt_type |-> unwrap_or(fm.prompt_type, "agent"),
     inputs_schema |-> inputs_schema,
     output_schema |-> output_schema,
     tools |-> unwrap_or(fm.tools, <<>>),
     max_turns |-> unwrap_or(fm.max_turns, 1),
     body_template |-> body,
     extends |-> fm.extends]

\* the struct literal at the end of parse_prompt_file
PromptDefinition(fm, inputs_schema, output_schema, body) ==
    [name |-> fm.name,
     client |-> unwrap_or(fm.client, DefaultClient),
     prompt_type |-> unwrap_or(fm.prompt_type, DefaultPromptType),
     inputs_schema |-> inputs_schema,
     output_schema |-> output_schema,
     tools |-> unwrap_or(fm.tools, <<>>),
     max_turns |-> unwrap_or(fm.max_turns, DefaultMaxTurns),
     body_template |-> body,
     extends |-> fm.extends]

\* Variant: the two schemas are compiled before the name is checked
parse_prompt_file_schemas_first(content, yaml) ==
    LET sp == split_frontmatter(content)
    IN  IF ~sp.ok THEN sp
        ELSE LET fm == deserialize_frontmatter(yaml)
        IN  IF ~fm.ok THEN fm
        ELSE LET inputs_schema == parse_schema(fm.v.inputs)
        IN  IF ~inputs_schema.ok THEN inputs_schema
        ELSE LET output_schema == parse_schema(fm.v.output)
        IN  IF ~output_schema.ok THEN output_schema
        ELSE IF fm.v.name = "" THEN Err("MissingField", "name")
        ELSE [ok |-> TRUE,
              def |-> PromptDefinition(fm.v, inputs_schema.schema,
                                       output_schema.schema, sp.body)]

parse_prompt_file(content, yaml) ==
    LET sp == split_frontmatter(content)
    IN  IF ~sp.ok THEN sp
        ELSE LET fm == deserialize_frontmatter(yaml)
        IN  IF ~fm.ok THEN fm
        ELSE IF fm.v.name = "" THEN Err("MissingField", "name")
        ELSE LET inputs_schema == parse_schema(fm.v.inputs)
        IN  IF ~inputs_schema.ok THEN inputs_schema
        ELSE LET output_schema == parse_schema(fm.v.output)
        IN  IF ~output_schema.ok THEN output_schema
        ELSE [ok |-> TRUE,
              def |-> PromptDefinition(fm.v, inputs_schema.schema,
                                       output_schema.schema, sp.body)]

(* Inputs of the assembler *)

ParseDocs ==
    {BuildDoc(<<"a">>, <<>>),
     BuildDoc(<<"a">>, <<"a", " ", "a">>),
     <<"a">>,
     Dashes \o <<LF, "a">>}

SchemaFields ==
    {None,
     Some(YMapping(<<<<YString(Str_a), YString(Str_string)>>>>)),
     Some(YNumber(7))}

FrontmatterYamls ==
    [wellformed : BOOLEAN,
     name : {None, Some(""), Some("SimplePrompt")},
     client : {None, Some("openai/gpt")},
     type : {None, Some("agent")},
     inputs : SchemaFields,
     output : SchemaFields,
     tools : {None, Some(<<>>), Some(<<"read", "write">>)},
     max_turns : {None, Some(0), Some(3)},
     extends : {None, Some("base")}]

InitParse ==
    /\ op = "none"
    /\ arg \in [content : ParseDocs, yaml : FrontmatterYamls]
    /\ typedef = Pending
    /\ ret = Pending
    /\ locals = Pending
    /\ heap = EmptyHeap

Call_parse_prompt_file ==
    /\ op = "none"
    /\ op' = "parse_prompt_file"
    /\ ret' = parse_prompt_file(arg.content, arg.yaml)
    /\ UNCHANGED <<arg, typedef, locals, heap>>

NextParse == Call_parse_prompt_file

SpecParse == InitParse /\ [][NextParse]_vars

-----------------------------------------------------------------------------
(* Claims about parse_prompt_file *)

Assembled == op = "parse_prompt_file"

\* the field of the definition is the frontmatter's value when the key is
\* present and the default d when it is absent
CarriedOrDefault(o, d, got) == IF o.some THEN got = o.v ELSE got = d

\* C10: whenever parse_prompt_file succeeds, each absent optional field has
\* its default (client "anthropic/claude-sonnet", prompt_type "llm", tools
\* empty, max_turns 10, absent inputs/output the empty object {}), and each
\* present field is carried unchanged (name, client, type, tools,
\* max_turns, extends).
C10_DefaultsAndCarry ==
    (Assembled /\ ret.ok) =>
        LET y == arg.yaml
            d == ret.def
        IN  /\ y.name.some /\ d.name = y.name.v
            /\ CarriedOrDefault(y.client, "anthropic/claude-sonnet", d.client)
            /\ CarriedOrDefault(y.type, "llm", d.prompt_type)
            /\ CarriedOrDefault(y.tools, <<>>, d.tools)
            /\ CarriedOrDefault(y.max_turns, 10, d.max_turns)
            /\ d.extends = y.extends
            /\ ~y.inputs.some => DOMAIN d.inputs_schema = {}
            /\ ~y.output.some => DOMAIN d.output_schema = {}

\* C10 witness: a document giving only name and tools has been assembled
\* into a definition
C10_Witness ==
    /\ Assembled /\ ret.ok
    /\ ~arg.yaml.client.some /\ ~arg.yaml.type.some
    /\ ~arg.yaml.max_turns.some /\ ~arg.yaml.extends.some
    /\ ~arg.yaml.inputs.some /\ ~arg.yaml.output.some
    /\ arg.yaml.tools.some /\ arg.yaml.tools.v # <<>>
    /\ ret.def.body_template # <<>>

\* the frontmatter block was found and its text is YAML whose fields have
\* the types of struct Frontmatter
SplitAndYamlFine ==
    /\ split_frontmatter(arg.content).ok
    /\ arg.yaml.wellformed

NameAbsent == ~arg.yaml.name.some
NameEmpty == arg.yaml.name.some /\ arg.yaml.name.v = ""

\* C11: parse_prompt_file fails with MissingField("name") whenever the
\* frontmatter's required name field is absent or is the empty string.
C11_AbsentOrEmptyName ==
    (Assembled /\ SplitAndYamlFine /\ (NameAbsent \/ NameEmpty)) =>
        ret = Err("MissingField", "name")

\* C12: parse_prompt_file returns the error of the earliest failing stage
\* in the order frontmatter split, YAML decoding, name check, inputs schema
\* compilation, output schema compilation, and returns a definition only
\* when every stage succeeded.
C12_FailFast ==
    Assembled =>
        LET sp == split_frontmatter(arg.content)
            y == arg.yaml
            decoded == y.wellformed /\ y.name.some
            inputs == IF y.inputs.some THEN parse_schema_value(y.inputs.v)
                      ELSE Ok(EmptyObject)
            output == IF y.output.some THEN parse_schema_value(y.output.v)
                      ELSE Ok(EmptyObject)
        IN  /\ ~sp.ok => ret = sp
            /\ (sp.ok /\ ~decoded) => (~ret.ok /\ ret.err = "YamlParse")
            /\ (sp.ok /\ decoded /\ y.name.v = "") =>
                   ret = Err("MissingField", "name")
            /\ (sp.ok /\ decoded /\ y.name.v # "" /\ ~inputs.ok) =>
                   ret = inputs
            /\ (sp.ok /\ decoded /\ y.name.v # "" /\ inputs.ok
                      /\ ~output.ok) => ret = output
            /\ ret.ok <=> (/\ sp.ok /\ decoded /\ y.name.v # ""
                           /\ inputs.ok /\ output.ok)

\* C12 witness: a document whose name is empty and whose inputs and output
\* both fail to compile has been rejected
C12_Witness ==
    /\ Assembled /\ SplitAndYamlFine /\ NameEmpty
    /\ arg.yaml.inputs.some /\ ~parse_schema_value(arg.yaml.inputs.v).ok
    /\ arg.yaml.output.some /\ ~parse_schema_value(arg.yaml.output.v).ok
    /\ ~ret.ok

-----------------------------------------------------------------------------
(* The schema validator: validate_json and validate_with_details *)

\* serde_json::Value of an instance
JNull == [t |-> "null"]
JString(s) == [t |-> "string", s |-> s]
JInteger(n) == [t |-> "integer", n |-> n]
JArray(items) == [t |-> "array", items |-> items]
\* fields: a function from the member names to their values
JObject(fields) == [t |-> "object", fields |-> fields]

\* serde_json keeps the members of an object sorted by name
MemberOrder == <<"age", "name">>
sorted_keys(S) == SelectSeq(MemberOrder, LAMBDA k : k \in S)

\* The evaluator is the jsonschema crate (Draft 7).  A schema document is
\* a record of keywords, as to_json_schema builds them.

Draft7Types ==
    {"null", "boolean", "object", "array", "number", "string", "integer"}

\* JSONSchema::compile succeeds
RECURSIVE compiles(_)
compiles(schema) ==
    /\ "type" \in DOMAIN schema => schema.type \in Draft7Types
    /\ "properties" \in DOMAIN schema =>
          \A k \in DOMAIN schema.properties : compiles(schema.properties[k])
    /\ "items" \in DOMAIN schema => compiles(schema.items)
    /\ "anyOf" \in DOMAIN schema =>
          \A i \in DOMAIN schema.anyOf : compiles(schema.anyOf[i])

MsgNotASchema == <<"schema document is not valid under Draft 7">>

compile(schema) ==
    IF compiles(schema) THEN [ok |-> TRUE, v |-> schema]
    ELSE [ok |-> FALSE, e |-> MsgNotASchema]

is_type(instance, name) ==
    IF name = "number" THEN instance.t \in {"integer", "number"}
    ELSE instance.t = name

RECURSIVE validate(_, _, _)
RECURSIVE validate_items(_, _, _, _)
RECURSIVE validate_properties(_, _, _, _, _)

\* keyword items, from element i on
validate_items(schema, items, path, i) ==
    IF i > Len(items) THEN <<>>
    ELSE validate(schema, items[i], Append(path, ToString(i - 1)))
         \o validate_items(schema, items, path, i + 1)

\* keyword properties, from the i-th declared name on
validate_properties(properties, fields, path, names, i) ==
    IF i > Len(names) THEN <<>>
    ELSE (IF names[i] \in DOMAIN fields
          THEN validate(properties[names[i]], fields[names[i]],
                        Append(path, names[i]))
          ELSE <<>>)
         \o validate_properties(properties, fields, path, names, i + 1)

\* compiled.validate(instance): the errors of the keywords of the schema,
\* taken in the order of their names
validate(schema, instance, path) ==
    (IF "anyOf" \in DOMAIN schema
        /\ \A i \in DOMAIN schema.anyOf :
              validate(schema.anyOf[i], instance, path) # <<>>
     THEN <<[kind |-> "anyOf", instance |-> instance,
             instance_path |-> path]>>
     ELSE <<>>)
    \o (IF "enum" \in DOMAIN schema
           /\ ~(instance.t = "string"
                /\ \E i \in DOMAIN schema.enum : schema.enum[i] = instance.s)
        THEN <<[kind |-> "enum", instance |-> instance,
                options |-> schema.enum, instance_path |-> path]>>
        ELSE <<>>)
    \o (IF "items" \in DOMAIN schema /\ instance.t = "array"
        THEN validate_items(schema.items, instance.items, path, 1)
        ELSE <<>>)
    \o (IF "properties" \in DOMAIN schema /\ instance.t = "object"
        THEN validate_properties(schema.properties, instance.fields, path,
                                 sorted_keys(DOMAIN schema.properties), 1)
        ELSE <<>>)
    \o (IF "required" \in DOMAIN schema /\ instance.t = "object"
        THEN LET missing == SelectSeq(schema.required,
                              LAMBDA k : k \notin DOMAIN instance.fields)
             IN  [i \in DOMAIN missing |->
                    [kind |-> "required", property |-> missing[i],
                     instance_path |-> path]]
        ELSE <<>>)
    \o (IF "type" \in DOMAIN schema /\ ~is_type(instance, schema.type)
        THEN <<[kind |-> "type", instance |-> instance,
                expected |-> schema.type, instance_path |-> path]>>
        ELSE <<>>)

\* Display of a serde_json::Value
RECURSIVE show(_)
show(instance) ==
    CASE instance.t = "null" -> <<"null">>
      [] instance.t = "string" -> <<"\"", instance.s, "\"">>
      [] instance.t = "integer" -> <<ToString(instance.n)>>
      [] instance.t = "array" ->
            <<"[">>
            \o join([i \in DOMAIN instance.items |-> show(instance.items[i])],
                    <<",">>)
            \o <<"]">>
      [] instance.t = "object" ->
            LET names == sorted_keys(DOMAIN instance.fields)
            IN  <<"{">>
                \o join([i \in DOMAIN names |->
                           <<"\"", names[i], "\":">>
                           \o show(instance.fields[names[i]])], <<",">>)
                \o <<"}">>

\* Display of a ValidationError
to_string(e) ==
    CASE e.kind = "required" ->
            <<"\"", e.property, "\" is a required property">>
      [] e.kind = "type" ->
            show(e.instance) \o <<" is not of type \"", e.expected, "\"">>
      [] e.kind = "enum" ->
            show(e.instance) \o <<" is not one of ">>
            \o show(JArray([i \in DOMAIN e.options |->
                              JString(e.options[i])]))
      [] e.kind = "anyOf" ->
            show(e.instance)
            \o <<" is not valid under any of the given schemas">>

\* Display of a JSON pointer
pointer(path) == Flatten([i \in DOMAIN path |-> <<"/", path[i]>>])

OkUnit == [ok |-> TRUE]
OkList(v) == [ok |-> TRUE, v |-> v]

\* Variant: only the first diagnostic goes into the message
validate_json_first_only(schema, data) ==
    LET compiled == compile(schema)
    IN  IF ~compiled.ok THEN Err("InvalidSchema", compiled.e)
        ELSE LET errors == validate(compiled.v, data, <<>>)
             IN  IF errors # <<>>
                 THEN Err("ValidationFailed", to_string(errors[1]))
                 ELSE OkUnit

\* Variant: a schema that does not compile is reported as ValidationFailed
validate_json_one_kind(schema, data) ==
    LET compiled == compile(schema)
    IN  IF ~compiled.ok THEN Err("ValidationFailed", compiled.e)
        ELSE LET errors == validate(compiled.v, data, <<>>)
             IN  IF errors # <<>>
                 THEN Err("ValidationFailed",
                          join([i \in DOMAIN errors |-> to_string(errors[i])],
                               <<", ">>))
                 ELSE OkUnit

validate_json(schema, data) ==
    LET compiled == compile(schema)
    IN  IF ~compiled.ok THEN Err("InvalidSchema", compiled.e)
        ELSE LET errors == validate(compiled.v, data, <<>>)
             IN  IF errors # <<>>
                 THEN Err("ValidationFailed",
                          join([i \in DOMAIN errors |-> to_string(errors[i])],
                               <<", ">>))
                 ELSE OkUnit

\* Variant: a diagnostic gives the path alone
validate_with_details_paths(schema, data) ==
    LET compiled == compile(schema)
    IN  IF ~compiled.ok THEN Err("InvalidSchema", compiled.e)
        ELSE LET errors == validate(compiled.v, data, <<>>)
             IN  OkList([i \in DOMAIN errors |->
                           <<"path: ">> \o pointer(errors[i].instance_path)])

validate_with_details(schema, data) ==
    LET compiled == compile(schema)
    IN  IF ~compiled.ok THEN Err("InvalidSchema", compiled.e)
        ELSE LET errors == validate(compiled.v, data, <<>>)
             IN  OkList([i \in DOMAIN errors |->
                           <<"path: ">> \o pointer(errors[i].instance_path)
                           \o <<", error: ">> \o to_string(errors[i])])

(* Inputs of the validator *)

MaxItems == 2

Scalars == {JNull, JString("Alice"), JInteger(30)}

ObjectInstances ==
    {JObject(f) : f \in UNION {[S -> Scalars] : S \in SUBSET {"name", "age"}}}

ArrayInstances == {JArray(q) : q \in SeqsUpTo(Scalars, MaxItems)}

Instances == Scalars \cup ObjectInstances \cup ArrayInstances

NameSchemas ==
    {[type |-> "string"],
     [anyOf |-> <<[type |-> "string"], [type |-> "null"]>>],
     [type |-> "string", enum |-> <<"Alice", "Bob">>]}

AgeSchemas == {[type |-> "integer"], [type |-> "number"], [type |-> "strin"]}

RequiredLists ==
    {<<>>, <<"name">>, <<"age">>, <<"name", "age">>, <<"age", "name">>}

ObjectSchemas ==
    {[type |-> "object", properties |-> [name |-> n, age |-> a],
      required |-> r] : n \in NameSchemas, a \in AgeSchemas,
                        r \in RequiredLists}

OtherSchemas ==
    {[type |-> "array", items |-> [type |-> "integer"]],
     [type |-> "array", items |-> [type |-> "strin"]],
     [type |-> "string"],
     [type |-> "objekt"]}

InitValidate ==
    /\ op = "none"
    /\ \E d \in Instances :
          \/ \E sc \in ObjectSchemas : arg = [schema |-> sc, data |-> d]
          \/ \E sc \in OtherSchemas : arg = [schema |-> sc, data |-> d]
    /\ typedef = Pending
    /\ ret = Pending
    /\ locals = Pending
    /\ heap = EmptyHeap

Call_validate_json ==
    /\ op = "none"
    /\ op' = "validate_json"
    /\ ret' = validate_json(arg.schema, arg.data)
    /\ UNCHANGED <<arg, typedef, locals, heap>>

Call_validate_with_details ==
    /\ op = "none"
    /\ op' = "validate_with_details"
    /\ ret' = validate_with_details(arg.schema, arg.data)
    /\ UNCHANGED <<arg, typedef, locals, heap>>

NextValidate == Call_validate_json \/ Call_validate_with_details

SpecValidate == InitValidate /\ [][NextValidate]_vars

-----------------------------------------------------------------------------
(* Claims about the validator *)

ValidatedJson == op = "validate_json"
ValidatedDetails == op = "validate_with_details"
Validated == ValidatedJson \/ ValidatedDetails

\* an object schema made of type, properties and required, each property
\* declared by its type alone, applied to an object
PlainObjectCase ==
    /\ Validated
    /\ DOMAIN arg.schema = {"type", "properties", "required"}
    /\ arg.schema.type = "object"
    /\ \A k \in DOMAIN arg.schema.properties :
          /\ DOMAIN arg.schema.properties[k] = {"type"}
          /\ arg.schema.properties[k].type \in Draft7Types
    /\ arg.data.t = "object"

MissingRequired ==
    {arg.schema.required[i] : i \in DOMAIN arg.schema.required}
        \ DOMAIN arg.data.fields

DeclaredType(k) ==
    is_type(arg.data.fields[k], arg.schema.properties[k].type)

\* the call rejected the instance, every missing required field being named
\* by a diagnostic
RejectedNamingMissing ==
    /\ ValidatedJson =>
          /\ ~ret.ok /\ ret.err = "ValidationFailed"
          /\ \A k \in MissingRequired : contains(ret.msg, k)
    /\ ValidatedDetails =>
          /\ ret.ok /\ ret.v # <<>>
          /\ \A k \in MissingRequired :
                \E i \in DOMAIN ret.v : contains(ret.v[i], k)

AcceptedClean ==
    /\ ValidatedJson => ret = OkUnit
    /\ ValidatedDetails => ret = OkList(<<>>)

\* C15 as stated: for an object schema using type, properties and required,
\* validation rejects every object that lacks a required field, with a
\* diagnostic naming the field, and accepts with zero diagnostics every
\* object that has all required fields with values of the declared types.
C15_RequiredFieldsTyped ==
    PlainObjectCase =>
        /\ MissingRequired # {} => RejectedNamingMissing
        /\ (/\ MissingRequired = {}
            /\ \A i \in DOMAIN arg.schema.required :
                  DeclaredType(arg.schema.required[i])) => AcceptedClean

\* C15 amended: ... and accepts with zero diagnostics every object that has
\* all required fields and in which every declared property that is
\* present, required or not, has a value of its declared type.
C15_PresentFieldsTyped ==
    PlainObjectCase =>
        /\ MissingRequired # {} => RejectedNamingMissing
        /\ (/\ MissingRequired = {}
            /\ \A k \in DOMAIN arg.data.fields
                        \cap DOMAIN arg.schema.properties :
                  DeclaredType(k)) => AcceptedClean

\* C15 witness: an object lacking both required fields has been validated
\* in detail
C15_Witness ==
    /\ PlainObjectCase /\ ValidatedDetails
    /\ MissingRequired = {"name", "age"}
    /\ Len(ret.v) = 2

\* the text of a diagnostic after its "path: ..., error: " prefix
ErrorText(d) ==
    LET i == CHOOSE i \in DOMAIN d : d[i] = ", error: "
    IN  SubSeq(d, i + 1, Len(d))

\* C16: for every (schema, instance) whose schema compiles, validate_json
\* returns Ok exactly when validate_with_details returns an empty list, and
\* returns ValidationFailed with one message combining all diagnostics
\* exactly when the list is non-empty; the list has one entry per violation
\* found by the evaluator.
C16_EntryPointsAgree ==
    (ValidatedJson /\ compiles(arg.schema)) =>
        LET details == validate_with_details(arg.schema, arg.data)
        IN  /\ details.ok
            /\ ret.ok <=> details.v = <<>>
            /\ ~ret.ok =>
                  /\ ret.err = "ValidationFailed"
                  /\ ret.msg = join([i \in DOMAIN details.v |->
                                        ErrorText(details.v[i])], <<", ">>)
            /\ Len(details.v) = Len(validate(arg.schema, arg.data, <<>>))

\* C16 witness: validate_json has rejected an instance for which the
\* detailed check lists three diagnostics
C16_Witness ==
    /\ ValidatedJson /\ compiles(arg.schema)
    /\ Len(validate_with_details(arg.schema, arg.data).v) = 3
    /\ ~ret.ok

\* C17: in both entry points a schema document that fails to compile is
\* reported as InvalidSchema, never as ValidationFailed, and an instance
\* that violates a compiled schema is never reported as InvalidSchema:
\* validate_json reports ValidationFailed and validate_with_details returns
\* Ok with a non-empty list.
C17_ErrorKindsDistinct ==
    Validated =>
        /\ ~compiles(arg.schema) => (~ret.ok /\ ret.err = "InvalidSchema")
        /\ (compiles(arg.schema)
              /\ validate(arg.schema, arg.data, <<>>) # <<>>) =>
              /\ ValidatedJson => (~ret.ok /\ ret.err = "ValidationFailed")
              /\ ValidatedDetails => (ret.ok /\ ret.v # <<>>)

\* C17 witness: validate_json has been given a schema that does not compile
\* and an instance that no schema of that shape would accept
C17_Witness ==
    /\ ValidatedJson /\ ~compiles(arg.schema)
    /\ "properties" \in DOMAIN arg.schema
    /\ arg.data.t = "object" /\ MissingRequired # {}
    /\ ~ret.ok

-----------------------------------------------------------------------------
(* The template renderer: render_template *)

\* The engine is the minijinja crate.  Its templates are modelled for text
\* and {{ expression }} blocks, an expression being a variable name or a
\* call name().

IdentChars == {"n", "m", "H"}
IsIdent(t) == t # <<>> /\ \A i \in DOMAIN t : t[i] \in IdentChars

\* the first position from `from` on where a is followed by b, 0 if none
find_pair(s, a, b, from) ==
    IF \E i \in from..(Len(s) - 1) : s[i] = a /\ s[i + 1] = b
    THEN CHOOSE i \in from..(Len(s) - 1) :
            /\ s[i] = a /\ s[i + 1] = b
            /\ \A j \in from..(i - 1) : ~(s[j] = a /\ s[j + 1] = b)
    ELSE 0

Raw(text) == [node |-> "Raw", text |-> text]
Var(name) == [node |-> "Var", name |-> name]
Call(name) == [node |-> "Call", name |-> name]

SyntaxError == [kind |-> "syntax error", detail |-> "unexpected input"]
UnknownFunction == [kind |-> "unknown function", detail |-> "not callable"]
TemplateNotFound == [kind |-> "template not found", detail |-> "prompt"]

\* Display of minijinja::Error
error_to_string(e) == <<e.kind, ": ", e.detail>>

\* the expression between {{ and }}
parse_expr(inner) ==
    LET e == trim(inner)
    IN  IF IsIdent(e) THEN [ok |-> TRUE, v |-> Var(e)]
        ELSE IF Len(e) > 2 /\ ends_with(e, <<"(", ")">>)
                /\ IsIdent(SubSeq(e, 1, Len(e) - 2))
        THEN [ok |-> TRUE, v |-> Call(SubSeq(e, 1, Len(e) - 2))]
        ELSE [ok |-> FALSE, e |-> SyntaxError]

RECURSIVE parse_template(_)
parse_template(source) ==
    LET i == find_pair(source, "{", "{", 1)
    IN  IF i = 0 THEN [ok |-> TRUE, v |-> <<Raw(source)>>]
        ELSE LET j == find_pair(source, "}", "}", i + 2)
        IN  IF j = 0 THEN [ok |-> FALSE, e |-> SyntaxError]
        ELSE LET expr == parse_expr(SubSeq(source, i + 2, j - 1))
                 rest == parse_template(SubSeq(source, j + 2, Len(source)))
        IN  IF ~expr.ok THEN expr
            ELSE IF ~rest.ok THEN rest
            ELSE [ok |-> TRUE,
                  v |-> <<Raw(SubSeq(source, 1, i - 1)), expr.v>> \o rest.v]

\* Environment::new(); whether a final newline of a template source is
\* kept is the default of the engine the crate was built with
Environment_new(keep_trailing_newline) ==
    [keep_trailing_newline |-> keep_trailing_newline, templates |-> <<>>]

\* Environment::add_template
add_template(env, name, source) ==
    LET src == IF ~env.keep_trailing_newline /\ ends_with(source, <<LF>>)
               THEN Front(source) ELSE source
        compiled == parse_template(src)
    IN  IF ~compiled.ok THEN compiled
        ELSE [ok |-> TRUE,
              v |-> [env EXCEPT !.templates = (name :> compiled.v) @@ @]]

\* Environment::get_template
get_template(env, name) ==
    IF name \in DOMAIN env.templates
    THEN [ok |-> TRUE, v |-> env.templates[name]]
    ELSE [ok |-> FALSE, e |-> TemplateNotFound]

RECURSIVE render(_, _)
\* Template::render: an undefined variable renders as the empty text
render(template, ctx) ==
    IF template = <<>> THEN [ok |-> TRUE, v |-> <<>>]
    ELSE LET node == Head(template)
             rest == render(Tail(template), ctx)
         IN  IF node.node = "Call" THEN [ok |-> FALSE, e |-> UnknownFunction]
             ELSE IF ~rest.ok THEN rest
             ELSE [ok |-> TRUE,
                   v |-> (IF node.node = "Raw" THEN node.text
                          ELSE IF node.name \in DOMAIN ctx
                          THEN ctx[node.name] ELSE <<>>) \o rest.v]

OkString(v) == [ok |-> TRUE, v |-> v]

\* Variant: the rendered text is trimmed
render_template_trimmed(template_str, inputs, env) ==
    LET added == add_template(env, "prompt", template_str)
    IN  IF ~added.ok
        THEN Err("TemplateCompile", error_to_string(added.e))
        ELSE LET template == get_template(added.v, "prompt")
        IN  IF ~template.ok
            THEN Err("TemplateCompile", error_to_string(template.e))
        ELSE LET rendered == render(template.v, inputs)
        IN  IF ~rendered.ok
            THEN Err("TemplateCompile", error_to_string(rendered.e))
            ELSE OkString(trim(rendered.v))

\* Variant: a failure while rendering has an error kind of its own
render_template_two_kinds(template_str, inputs, env) ==
    LET added == add_template(env, "prompt", template_str)
    IN  IF ~added.ok
        THEN Err("TemplateCompile", error_to_string(added.e))
        ELSE LET template == get_template(added.v, "prompt")
        IN  IF ~template.ok
            THEN Err("TemplateCompile", error_to_string(template.e))
        ELSE LET rendered == render(template.v, inputs)
        IN  IF ~rendered.ok
            THEN Err("MissingField", error_to_string(rendered.e))
            ELSE OkString(rendered.v)

\* env is the Environment::new() of the first line
render_template(template_str, inputs, env) ==
    LET added == add_template(env, "prompt", template_str)
    IN  IF ~added.ok
        THEN Err("TemplateCompile", error_to_string(added.e))
        ELSE LET template == get_template(added.v, "prompt")
        IN  IF ~template.ok
            THEN Err("TemplateCompile", error_to_string(template.e))
        ELSE LET rendered == render(template.v, inputs)
        IN  IF ~rendered.ok
            THEN Err("TemplateCompile", error_to_string(rendered.e))
            ELSE OkString(rendered.v)

(* Inputs of the renderer *)

MaxTemplateAtoms == 4

Name_n == <<"n">>
Name_m == <<"m">>

TextAtomsT == {<<"H">>, <<" ">>, <<"!">>, <<LF>>}
ExprAtoms ==
    {<<"{", "{", " ">> \o Name_n \o <<" ", "}", "}">>,
     <<"{", "{">> \o Name_m \o <<"}", "}">>}
FailingAtoms ==
    {<<"{", "{">>, <<"{", "{">> \o Name_n \o <<"(", ")", "}", "}">>}

TemplateAtoms == TextAtomsT \cup ExprAtoms \cup FailingAtoms

Contexts ==
    {<<>>,
     (Name_n :> <<"W">>),
     (Name_n :> <<"W">>) @@ (Name_m :> <<"{", "{", "n", "}", "}", " ">>)}

InitRender ==
    /\ op = "none"
    /\ \E segs \in SeqsUpTo(TemplateAtoms, MaxTemplateAtoms),
          ctx \in Contexts, keep \in BOOLEAN :
          arg = [template_str |-> Flatten(segs), segments |-> segs,
                 inputs |-> ctx, keep_trailing_newline |-> keep]
    /\ typedef = Pending
    /\ ret = Pending
    /\ locals = Pending
    /\ heap = EmptyHeap

Call_render_template ==
    /\ op = "none"
    /\ op' = "render_template"
    /\ ret' = render_template(arg.template_str, arg.inputs,
                              Environment_new(arg.keep_trailing_newline))
    /\ UNCHANGED <<arg, typedef, locals, heap>>

NextRender == Call_render_template

SpecRender == InitRender /\ [][NextRender]_vars

-----------------------------------------------------------------------------
(* Claims about render_template *)

Rendered == op = "render_template"

\* the name inside an expression atom
NameOf(seg) == trim(SubSeq(seg, 3, Len(seg) - 2))

\* the template is text and {{ name }} expressions whose names the context
\* defines
PlainTemplate ==
    \A i \in DOMAIN arg.segments :
        \/ arg.segments[i] \in TextAtomsT
        \/ /\ arg.segments[i] \in ExprAtoms
           /\ NameOf(arg.segments[i]) \in DOMAIN arg.inputs

\* every expression replaced by the context's value, the rest unchanged
Substituted(segs) ==
    Flatten([i \in DOMAIN segs |->
               IF segs[i] \in ExprAtoms THEN arg.inputs[NameOf(segs[i])]
               ELSE segs[i]])

C19_SingleErrorKind ==
    Rendered =>
        LET env == Environment_new(arg.keep_trailing_newline)
            added == add_template(env, "prompt", arg.template_str)
        IN  /\ ~added.ok => (~ret.ok /\ ret.err = "TemplateCompile")
            /\ (added.ok /\ ~render(added.v.templates["prompt"],
                                    arg.inputs).ok) =>
                  (~ret.ok /\ ret.err = "TemplateCompile")
            /\ ~ret.ok => ret.err = "TemplateCompile"

\* C19 witness: a template that compiles and then fails while rendering
\* has been reported
C19_Witness ==
    /\ Rendered
    /\ add_template(Environment_new(arg.keep_trailing_newline), "prompt",
                    arg.template_str).ok
    /\ ~ret.ok

-----------------------------------------------------------------------------
(* The C interface: prompt_parser_parse, prompt_parser_validate_json,
   prompt_parser_render_template *)

\* the character U+0000
NUL == "\\0"

\* the frontmatter strings that hold a U+0000 (the YAML escape "\0")
StringsWithNul == {"Simple\\0Prompt", "open\\0ai"}

NULL == [null |-> TRUE]
\* Box::into_raw(Box::new(x)), CString::into_raw
into_raw(x) == [null |-> FALSE, pointee |-> x]

\* an argument of type *const c_char: bytes that are not UTF-8, or a text
InvalidUtf8 == [utf8 |-> FALSE]
CStr(text) == [utf8 |-> TRUE, s |-> text]

\* serde_json::from_str on an argument: text that is not JSON, or a value
NotJson == [utf8 |-> TRUE, json |-> None]
JsonText(value) == [utf8 |-> TRUE, json |-> Some(value)]

\* CString::new fails on an interior U+0000
cstring_new(text) ==
    IF contains(text, NUL) THEN [ok |-> FALSE] ELSE [ok |-> TRUE, v |-> text]
cstring_new_field(str) ==
    IF str \in StringsWithNul THEN [ok |-> FALSE] ELSE [ok |-> TRUE, v |-> str]

\* the call did not return: unwrap() panicked inside the extern "C" function
Aborted == [aborted |-> TRUE]

\* format!(fmt, e)
format(fmt, e) == <<fmt, e>>

DisplayFormat ==
    [YamlParse |-> "YAML parse error at line {line}: {message}",
     TemplateCompile |-> "Template compile error: {0}",
     MissingField |-> "Missing required field: {0}",
     InvalidSchema |-> "Invalid schema: {0}",
     ValidationFailed |-> "Schema validation failed: {0}"]

\* Display of PromptError
display(e) == format(DisplayFormat[e.err], e)

CPromptError(message) == [message |-> into_raw(message)]

\* serde_json::Value::to_string
json_to_string(value) == [json_text_of |-> value]

\* out_def and out_error are the values of the caller's two slots
prompt_parser_parse(content, yaml, out_def, out_error) ==
    IF ~content.utf8
    THEN [returned |-> FALSE, out_def |-> out_def,
          out_error |-> into_raw(CPromptError(
                           format("UTF-8 error: {}", "Utf8Error")))]
    ELSE LET r == parse_prompt_file(content.s, yaml)
         IN  IF r.ok
             THEN IF /\ cstring_new_field(r.def.name).ok
                     /\ cstring_new_field(r.def.client).ok
                     /\ cstring_new_field(r.def.prompt_type).ok
                     /\ cstring_new(r.def.body_template).ok
                  THEN [returned |-> TRUE,
                        out_def |-> into_raw(
                           [name |-> into_raw(r.def.name),
                            client |-> into_raw(r.def.client),
                            prompt_type |-> into_raw(r.def.prompt_type),
                            inputs_schema_json |->
                               into_raw(json_to_string(r.def.inputs_schema)),
                            output_schema_json |->
                               into_raw(json_to_string(r.def.output_schema)),
                            body_template |-> into_raw(r.def.body_template),
                            max_turns |-> r.def.max_turns]),
                        out_error |-> out_error]
                  ELSE Aborted
             ELSE [returned |-> FALSE, out_def |-> out_def,
                   out_error |-> into_raw(CPromptError(display(r)))]

error_record(fmt, e) == into_raw(CPromptError(format(fmt, e)))

\* the value of the caller's slot for the count before the call
Unwritten == [written |-> FALSE]
Written(v) == [written |-> TRUE, v |-> v]

prompt_parser_validate_json(schema_json, data_json, out_error_count, out_errors, out_error) ==
    LET failed(fmt, e) ==
            [returned |-> FALSE, out_error_count |-> out_error_count,
             out_errors |-> out_errors, out_error |-> error_record(fmt, e)]
    IN  IF ~schema_json.utf8
        THEN failed("UTF-8 error in schema: {}", "Utf8Error")
        ELSE IF ~data_json.utf8
        THEN failed("UTF-8 error in data: {}", "Utf8Error")
        ELSE IF ~schema_json.json.some
        THEN failed("Schema JSON parse error: {}", "serde_json::Error")
        ELSE IF ~data_json.json.some
        THEN failed("Data JSON parse error: {}", "serde_json::Error")
        ELSE LET r == validate_with_details(schema_json.json.v,
                                            data_json.json.v)
        IN  IF ~r.ok THEN failed("Validation error: {}", display(r))
            ELSE IF r.v = <<>>
            THEN [returned |-> TRUE, out_error_count |-> Written(0),
                  out_errors |-> NULL, out_error |-> out_error]
            ELSE IF \E i \in DOMAIN r.v : ~cstring_new(r.v[i]).ok
            THEN Aborted
            ELSE [returned |-> FALSE, out_error_count |-> Written(Len(r.v)),
                  out_errors |-> into_raw([i \in DOMAIN r.v |->
                                             into_raw(r.v[i])]),
                  out_error |-> out_error]

\* how the engine prints a value of the context
value_text(value) ==
    CASE value.t = "string" -> value.s
      [] value.t = "integer" -> <<ToString(value.n)>>
      [] value.t = "null" -> <<"none">>
      [] OTHER -> <<>>

\* the context the engine makes of a serde_json::Value
json_context(value) ==
    IF value.t = "object"
    THEN [k \in DOMAIN value.fields |-> value_text(value.fields[k])]
    ELSE <<>>

prompt_parser_render_template(template_str, inputs_json, out_rendered, out_error, env) ==
    LET failed(fmt, e) ==
            [returned |-> FALSE, out_rendered |-> out_rendered,
             out_error |-> error_record(fmt, e)]
    IN  IF ~template_str.utf8
        THEN failed("UTF-8 error in template: {}", "Utf8Error")
        ELSE IF ~inputs_json.utf8
        THEN failed("UTF-8 error in inputs: {}", "Utf8Error")
        ELSE IF ~inputs_json.json.some
        THEN failed("JSON parse error: {}", "serde_json::Error")
        ELSE LET added == add_template(env, "prompt", template_str.s)
        IN  IF ~added.ok
            THEN failed("Template compile error: {}",
                        error_to_string(added.e))
        ELSE LET tmpl == get_template(added.v, "prompt")
        IN  IF ~tmpl.ok
            THEN failed("Template get error: {}", error_to_string(tmpl.e))
        ELSE LET rendered == render(tmpl.v, json_context(inputs_json.json.v))
        IN  IF ~rendered.ok
            THEN failed("Template render error: {}",
                        error_to_string(rendered.e))
            ELSE IF ~cstring_new(rendered.v).ok THEN Aborted
            ELSE [returned |-> TRUE, out_rendered |-> into_raw(rendered.v),
                  out_error |-> out_error]

(* Allocations across the C interface *)

\* a block of the heap: the slot of the result it hangs from, its index in
\* the array of that slot (0: none), the field of the structure that
\* points to it ("": none) and its index in the array of that field
Block(root, i, field, j) == [root |-> root, i |-> i, field |-> field, j |-> j]

\* Box::into_raw / CString::into_raw of the blocks: they go to the caller
allocate(h, blocks) == [h EXCEPT !.live = @ \cup blocks]

\* Box::from_raw / CString::from_raw of the blocks, and their drop
deallocate(h, blocks) ==
    [live |-> h.live \ blocks,
     faulted |-> h.faulted \/ ~(blocks \subseteq h.live)]

\* the block of a C string
CStringBlock(p, root, i, field, j) ==
    IF p.null THEN {} ELSE {Block(root, i, field, j)}

\* the blocks of element i of a slot: a structure whose `fields` are C
\* strings, boxed when `boxed`
StructBlocks(v, boxed, root, i, fields) ==
    (IF boxed THEN {Block(root, i, "", 0)} ELSE {})
        \cup UNION {CStringBlock(v[f], root, i, f, 0) : f \in fields}

\* the blocks of an array of C strings
StringArrayBlocks(p, root, i, field) ==
    IF p.null THEN {}
    ELSE {Block(root, i, field, 0)}
            \cup UNION {CStringBlock(p.pointee[j], root, i, field, j) :
                            j \in DOMAIN p.pointee}

\* the fields of CPromptDefinition that are pointers
CPromptDefinitionStrings ==
    {"name", "client", "prompt_type", "inputs_schema_json",
     "output_schema_json", "body_template"}

\* every block that a result of the three functions points to
PromptParserBlocks(r) ==
    IF "aborted" \in DOMAIN r THEN {}
    ELSE (IF "out_def" \in DOMAIN r /\ ~r.out_def.null
          THEN StructBlocks(r.out_def.pointee, TRUE, "out_def", 0,
                            CPromptDefinitionStrings)
          ELSE {})
         \cup (IF ~r.out_error.null
               THEN StructBlocks(r.out_error.pointee, TRUE, "out_error", 0,
                                 {"message"})
               ELSE {})
         \cup (IF "out_rendered" \in DOMAIN r
               THEN CStringBlock(r.out_rendered, "out_rendered", 0, "", 0)
               ELSE {})
         \cup (IF "out_errors" \in DOMAIN r
               THEN StringArrayBlocks(r.out_errors, "out_errors", 0, "")
               ELSE {})

\* Variant: the body template is not released
prompt_parser_free_definition_but_body(def) ==
    IF def.null THEN {}
    ELSE LET d == def.pointee
         IN  {Block("out_def", 0, "", 0)}
             \cup (IF ~d.name.null
                   THEN {Block("out_def", 0, "name", 0)} ELSE {})
             \cup (IF ~d.client.null
                   THEN {Block("out_def", 0, "client", 0)} ELSE {})
             \cup (IF ~d.prompt_type.null
                   THEN {Block("out_def", 0, "prompt_type", 0)} ELSE {})
             \cup (IF ~d.inputs_schema_json.null
                   THEN {Block("out_def", 0, "inputs_schema_json", 0)}
                   ELSE {})
             \cup (IF ~d.output_schema_json.null
                   THEN {Block("out_def", 0, "output_schema_json", 0)}
                   ELSE {})

\* the blocks that prompt_parser_free_definition releases
prompt_parser_free_definition(def) ==
    IF def.null THEN {}
    ELSE LET d == def.pointee
         IN  {Block("out_def", 0, "", 0)}
             \cup (IF ~d.name.null
                   THEN {Block("out_def", 0, "name", 0)} ELSE {})
             \cup (IF ~d.client.null
                   THEN {Block("out_def", 0, "client", 0)} ELSE {})
             \cup (IF ~d.prompt_type.null
                   THEN {Block("out_def", 0, "prompt_type", 0)} ELSE {})
             \cup (IF ~d.inputs_schema_json.null
                   THEN {Block("out_def", 0, "inputs_schema_json", 0)}
                   ELSE {})
             \cup (IF ~d.output_schema_json.null
                   THEN {Block("out_def", 0, "output_schema_json", 0)}
                   ELSE {})
             \cup (IF ~d.body_template.null
                   THEN {Block("out_def", 0, "body_template", 0)} ELSE {})

\* the blocks that prompt_parser_free_error releases
prompt_parser_free_error(error) ==
    IF error.null THEN {}
    ELSE {Block("out_error", 0, "", 0)}
            \cup (IF ~error.pointee.message.null
                  THEN {Block("out_error", 0, "message", 0)} ELSE {})

\* the blocks that prompt_parser_free_validation_errors releases; the
\* count is read only when the array is not null
prompt_parser_free_validation_errors(errors, count) ==
    IF errors.null THEN {}
    ELSE IF count.v = 0 THEN {}
    ELSE {Block("out_errors", 0, "", j) :
            j \in {k \in 1..count.v : ~errors.pointee[k].null}}
         \cup {Block("out_errors", 0, "", 0)}

\* the blocks that prompt_parser_free_string releases
prompt_parser_free_string(s) ==
    IF ~s.null THEN {Block("out_rendered", 0, "", 0)} ELSE {}

(* Inputs of the C interface *)

MaxFfiAtoms == 3

FfiContents == {InvalidUtf8} \cup {CStr(d) : d \in ParseDocs}

FfiYamls ==
    [wellformed : BOOLEAN,
     name : {None, Some(""), Some("SimplePrompt"), Some("Simple\\0Prompt")},
     client : {None, Some("open\\0ai")},
     type : {None},
     inputs : SchemaFields,
     output : {None},
     tools : {None},
     max_turns : {None, Some(3)},
     extends : {None}]

FfiSchemas ==
    {NotJson, InvalidUtf8,
     JsonText([type |-> "object",
               properties |-> [name |-> [type |-> "string"],
                               age |-> [type |-> "integer"]],
               required |-> <<"name", "age">>]),
     JsonText([type |-> "string"]),
     JsonText([type |-> "objekt"])}

FfiData == {NotJson, InvalidUtf8} \cup {JsonText(d) : d \in Instances}

FfiTemplateAtoms ==
    {<<"H">>, <<LF>>, <<"{", "{", " ">> \o Name_n \o <<" ", "}", "}">>,
     <<"{", "{">>, <<"{", "{">> \o Name_n \o <<"(", ")", "}", "}">>}

FfiTemplates ==
    {InvalidUtf8}
    \cup {CStr(Flatten(q)) : q \in SeqsUpTo(FfiTemplateAtoms, MaxFfiAtoms)}

FfiInputs ==
    {NotJson, InvalidUtf8,
     JsonText(JObject(<<>>)),
     JsonText(JInteger(30)),
     JsonText(JObject((Name_n :> JString(<<"W">>)))),
     JsonText(JObject((Name_n :> JInteger(30)))),
     JsonText(JObject((Name_n :> JString(<<"a", NUL, "b">>))))}

\* the caller's slots hold null before the call
InitFfi ==
    /\ op = "none"
    /\ \/ \E c \in FfiContents, y \in FfiYamls :
             arg = [fn |-> "prompt_parser_parse", content |-> c, yaml |-> y]
       \/ \E sc \in FfiSchemas, d \in FfiData :
             arg = [fn |-> "prompt_parser_validate_json",
                    schema_json |-> sc, data_json |-> d]
       \/ \E t \in FfiTemplates, i \in FfiInputs, keep \in BOOLEAN :
             arg = [fn |-> "prompt_parser_render_template",
                    template_str |-> t, inputs_json |-> i,
                    keep_trailing_newline |-> keep]
    /\ typedef = Pending
    /\ ret = Pending
    /\ locals = Pending
    /\ heap = EmptyHeap

Call_prompt_parser_parse ==
    /\ op = "none"
    /\ arg.fn = "prompt_parser_parse"
    /\ op' = "prompt_parser_parse"
    /\ ret' = prompt_parser_parse(arg.content, arg.yaml, NULL, NULL)
    /\ heap' = allocate(heap, PromptParserBlocks(ret'))
    /\ UNCHANGED <<arg, typedef, locals>>

Call_prompt_parser_validate_json ==
    /\ op = "none"
    /\ arg.fn = "prompt_parser_validate_json"
    /\ op' = "prompt_parser_validate_json"
    /\ ret' = prompt_parser_validate_json(arg.schema_json, arg.data_json,
                                          Unwritten, NULL, NULL)
    /\ heap' = allocate(heap, PromptParserBlocks(ret'))
    /\ UNCHANGED <<arg, typedef, locals>>

Call_prompt_parser_render_template ==
    /\ op = "none"
    /\ arg.fn = "prompt_parser_render_template"
    /\ op' = "prompt_parser_render_template"
    /\ ret' = prompt_parser_render_template(
                 arg.template_str, arg.inputs_json, NULL, NULL,
                 Environment_new(arg.keep_trailing_newline))
    /\ heap' = allocate(heap, PromptParserBlocks(ret'))
    /\ UNCHANGED <<arg, typedef, locals>>

NextFfi ==
    \/ Call_prompt_parser_parse
    \/ Call_prompt_parser_validate_json
    \/ Call_prompt_parser_render_template

SpecFfi == InitFfi /\ [][NextFfi]_vars

-----------------------------------------------------------------------------
(* Claims about the C interface *)

Called == op # "none"

\* the payload of a call that returns true
SuccessPayloadWritten ==
    CASE op = "prompt_parser_parse" -> ~ret.out_def.null
      [] op = "prompt_parser_render_template" -> ~ret.out_rendered.null
      [] op = "prompt_parser_validate_json" ->
            ret.out_error_count = Written(0) /\ ret.out_errors.null

NoSuccessPayload ==
    CASE op = "prompt_parser_parse" -> ret.out_def.null
      [] op = "prompt_parser_render_template" -> ret.out_rendered.null
      [] op = "prompt_parser_validate_json" ->
            ret.out_error_count = Unwritten /\ ret.out_errors.null

\* prompt_parser_validate_json found the instance invalid: the diagnostics
\* are handed back and no error record
DiagnosticsWritten ==
    /\ op = "prompt_parser_validate_json"
    /\ ret.out_error_count.written /\ ret.out_error_count.v > 0
    /\ ~ret.out_errors.null
    /\ ret.out_error.null

\* C20: each call across the boundary ends, for every input, by returning
\* an outcome rather than raising or aborting: when it returns true it has
\* written its success payload and no error record, and when it reports an
\* error it has written a non-null error record carrying a message and no
\* success payload; it never writes both.
C20_AlwaysAnOutcome ==
    Called =>
        /\ "returned" \in DOMAIN ret
        /\ ret.returned => (SuccessPayloadWritten /\ ret.out_error.null)
        /\ ~ret.returned =>
              \/ DiagnosticsWritten
              \/ /\ ~ret.out_error.null
                 /\ ~ret.out_error.pointee.message.null
                 /\ NoSuccessPayload

-----------------------------------------------------------------------------
(* TypeDef values built directly (the enum is public), Object included *)

\* Optional and Array wrappers are nested at most this deep
MaxDepth == 2

SimpleNames ==
    {Str_string, Str_integer, Str_float, Str_number, Str_boolean, Str_a, <<>>}

LeafTypeDefs ==
    {Simple(n) : n \in SimpleNames}
        \cup {Enum(<<Str_a, Str_b>>), Enum(<<Str_b, Str_a>>)}

RECURSIVE WrappedTypeDefs(_)
WrappedTypeDefs(d) ==
    IF d = 0 THEN LeafTypeDefs
    ELSE LET inner == WrappedTypeDefs(d - 1)
         IN  inner \cup {Optional(t) : t \in inner}
                   \cup {Array(t) : t \in inner}

\* HashMap::new() followed by one insert per entry of `entries`, in that
\* order (the names are distinct)
HashMap_from(entries) ==
    [k \in {entries[i][1] : i \in DOMAIN entries} |->
        LET i == CHOOSE i \in DOMAIN entries : entries[i][1] = k
        IN  entries[i][2]]

\* the orders in which a HashMap with these keys may yield them
IterOrders(keys) ==
    {q \in [1..Cardinality(keys) -> keys] : IsInjective(q)}

FieldTypeDefs ==
    {Simple(Str_string), Optional(Simple(Str_integer)),
     Array(Optional(Simple(Str_string))),
     Object(HashMap_from(<<<<Str_a, Optional(Simple(Str_boolean))>>>>),
            <<Str_a>>)}

FieldNames == {Str_a, Str_b, Str_c}

\* field declarations: distinct names, each with its TypeDef
Declarations ==
    {[i \in 1..Len(ns) |-> <<ns[i], ts[i]>>] :
        <<ns, ts>> \in
            {x \in SeqsUpTo(FieldNames, MaxFields)
                    \X SeqsUpTo(FieldTypeDefs, MaxFields) :
                Len(x[1]) = Len(x[2]) /\ IsInjective(x[1])}}

InitLower ==
    /\ op = "none"
    /\ ret = Pending
    /\ locals = Pending
    /\ heap = EmptyHeap
    /\ \/ /\ arg = [inserted |-> <<>>]
          /\ typedef \in WrappedTypeDefs(MaxDepth)
       \/ \E entries \in Declarations :
             /\ arg = [inserted |-> entries]
             /\ \E iter \in IterOrders({entries[i][1] : i \in DOMAIN entries}) :
                   typedef = Object(HashMap_from(entries), iter)

Call_to_json_schema_built ==
    /\ op = "none"
    /\ op' = "to_json_schema"
    /\ ret' = to_json_schema(typedef)
    /\ UNCHANGED <<arg, typedef, locals, heap>>

Call_is_optional_schema ==
    /\ op = "to_json_schema"
    /\ op' = "is_optional_schema"
    /\ ret' = [schema |-> ret, optional |-> is_optional_schema(ret)]
    /\ UNCHANGED <<arg, typedef, locals, heap>>

NextLower == Call_to_json_schema_built \/ Call_is_optional_schema

SpecLower == InitLower /\ [][NextLower]_vars

-----------------------------------------------------------------------------
(* C23: the lowering rules *)

\* the primitive vocabulary and the JSON Schema type of each name
Vocabulary ==
    {<<Str_string, "string">>, <<Str_integer, "integer">>,
     <<Str_float, "number">>, <<Str_number, "number">>,
     <<Str_boolean, "boolean">>}

PrimitiveType(name) ==
    IF \E p \in Vocabulary : p[1] = name
    THEN (CHOOSE p \in Vocabulary : p[1] = name)[2]
    ELSE "string"

RECURSIVE FollowsRules(_, _)
\* schema j is what the rules give for TypeDef t
FollowsRules(t, j) ==
    CASE t.kind = "Simple" -> j = [type |-> PrimitiveType(t.name)]
      [] t.kind = "Array" ->
            /\ DOMAIN j = {"type", "items"}
            /\ j.type = "array"
            /\ FollowsRules(t.inner, j.items)
      [] t.kind = "Enum" ->
            /\ DOMAIN j = {"type", "enum"}
            /\ j.type = "string"
            /\ j.enum = t.variants
      [] t.kind = "Optional" ->
            /\ DOMAIN j = {"anyOf"}
            /\ Len(j.anyOf) = 2
            /\ FollowsRules(t.inner, j.anyOf[1])
            /\ j.anyOf[2] = [type |-> "null"]
      [] t.kind = "Object" ->
            /\ DOMAIN j = {"type", "properties", "required"}
            /\ j.type = "object"
            /\ DOMAIN j.properties = DOMAIN t.fields
            /\ \A k \in DOMAIN t.fields :
                  FollowsRules(t.fields[k], j.properties[k])

LoweredBuilt == op = "to_json_schema"

\* C23: to_json_schema lowers every TypeDef by the stated rules: a Simple
\* name to its primitive type (float and number both to number, an
\* unrecognized name to string), Array to an array schema of the lowered
\* inner type, Enum to a string schema with the variants in order, Optional
\* to anyOf of the lowered inner type and null, at every depth
C23_LoweringRules == LoweredBuilt => FollowsRules(typedef, ret)

C23_Witness ==
    /\ LoweredBuilt
    /\ typedef = Array(Optional(Simple(Str_float)))
    /\ ret.items.anyOf[1].type = "number"

-----------------------------------------------------------------------------
(* C27: the order of `required` in the lowering of an Object *)

RECURSIVE DeclaredRequired(_)
\* the names of the declarations that are not Optional, in declaration order
DeclaredRequired(entries) ==
    IF entries = <<>> THEN <<>>
    ELSE IF Head(entries)[2].kind # "Optional"
         THEN <<Head(entries)[1]>> \o DeclaredRequired(Tail(entries))
         ELSE DeclaredRequired(Tail(entries))

\* C27: lowering an Object yields a `required` array that lists the
\* non-Optional field names in the order in which the fields were inserted
C27_RequiredInInsertionOrder ==
    (LoweredBuilt /\ typedef.kind = "Object")
        => ret.required = DeclaredRequired(arg.inserted)

-----------------------------------------------------------------------------
(* C29: the variant test and the structural test of optionality *)

Range(q) == {q[i] : i \in DOMAIN q}

\* C29: is_optional_schema of the lowering of t is true exactly when t is
\* the Optional variant, and the `required` of a lowered Object holds the
\* names that the structural test of the YAML-mapping path would select
C29_OptionalityTestsAgree ==
    /\ op = "is_optional_schema"
            => (ret.optional <=> typedef.kind = "Optional")
    /\ (LoweredBuilt /\ typedef.kind = "Object")
            => Range(ret.required) =
                  {k \in DOMAIN ret.properties :
                        ~is_optional_schema(ret.properties[k])}

C29_Witness ==
    /\ op = "is_optional_schema"
    /\ typedef.kind = "Optional"
    /\ typedef.inner.kind = "Array"
    /\ ret.optional

-----------------------------------------------------------------------------
(* C24: the order of the checks of from_str *)

RECURSIVE KindsOf(_)
\* the variants of a TypeDef from the outside in, along Optional and Array
KindsOf(t) ==
    IF t.kind \in {"Optional", "Array"}
    THEN <<t.kind>> \o KindsOf(t.inner)
    ELSE <<t.kind>>

RECURSIVE SuffixKinds(_)
\* the variants announced by s when its suffixes are read from the right:
\* `?` before `[]`, both before `|`
SuffixKinds(s) ==
    LET c == Core(s)
    IN  IF c # <<>> /\ c[Len(c)] = "?"
        THEN <<"Optional">> \o SuffixKinds(SubSeq(c, 1, Len(c) - 1))
        ELSE IF Len(c) >= 2 /\ c[Len(c) - 1] = "[" /\ c[Len(c)] = "]"
        THEN <<"Array">> \o SuffixKinds(SubSeq(c, 1, Len(c) - 2))
        ELSE IF \E i \in 1..Len(c) : c[i] = "|"
        THEN <<"Enum">>
        ELSE <<"Simple">>

Str_optional_array == Str_string \o <<"[", "]", "?">>
Str_optional_enum == <<"a", "|", "a", "?">>

\* C24: from_str checks a trailing `?`, then a trailing `[]`, then `|`,
\* then takes a bare name, on the trimmed string at every level: a string
\* ending in `?` is Optional at the top even with `|` or `[]` inside
\* ("a|a?" is Optional(Enum[a, a]), "string[]?" is Optional(Array(Simple
\* string))), and a string ending in `[]` that contains `|` is an Array
\* over an Enum, never an Enum
C24_CheckOrder ==
    Parsed =>
        /\ KindsOf(typedef) = SuffixKinds(arg.s)
        /\ ends_with(Core(arg.s), <<"?">>) => typedef.kind = "Optional"
        /\ arg.s = Str_optional_enum
                => typedef = Optional(Enum(<<Str_a, Str_a>>))
        /\ arg.s = Str_optional_array
                => typedef = Optional(Array(Simple(Str_string)))
        /\ (ends_with(Core(arg.s), <<"[", "]">>) /\ contains(arg.s, "|"))
                => /\ typedef.kind = "Array"
                   /\ KindsOf(typedef)[Len(KindsOf(typedef))] = "Enum"
                   /\ LET c == Core(arg.s)
                          inner == Core(SubSeq(c, 1, Len(c) - 2))
                      IN  (~ends_with(inner, <<"?">>)
                                /\ ~ends_with(inner, <<"[", "]">>))
                            => typedef.inner.kind = "Enum"

C24_Witness ==
    /\ Parsed
    /\ ends_with(Core(arg.s), <<"[", "]">>) /\ contains(arg.s, "|")
    /\ typedef.kind = "Array" /\ typedef.inner.kind = "Enum"

-----------------------------------------------------------------------------
(* C25: the dispatch of parse_schema_value on the kind of the node *)

RECURSIVE ValueNodes(_)
\* the node itself and every node beneath it that stands as a value
ValueNodes(value) ==
    {value} \cup
    CASE value.kind = "Mapping" ->
            UNION {ValueNodes(value.entries[i][2]) :
                        i \in DOMAIN value.entries}
      [] value.kind = "Sequence" ->
            UNION {ValueNodes(value.items[i]) : i \in DOMAIN value.items}
      [] OTHER -> {}

\* the nodes of the value that are neither string, mapping nor sequence
UnsupportedNodes(value) ==
    {n \in ValueNodes(value) : n.kind \notin {"String", "Mapping", "Sequence"}}

\* some mapping of the value has a key that is not a string
HasNonStringKey(value) ==
    \E n \in ValueNodes(value) :
        /\ n.kind = "Mapping"
        /\ \E i \in DOMAIN n.entries : n.entries[i][1].kind # "String"

\* some sequence of the value does not have exactly one element
HasBadSequence(value) ==
    \E n \in ValueNodes(value) : n.kind = "Sequence" /\ Len(n.items) # 1

\* C25: parse_schema_value dispatches on the kind of the node: a string
\* gives the lowering of from_str of it, a mapping an object schema, a
\* one-element sequence an array schema; a node of any other kind (number,
\* bool, null, tagged), at the top or nested, makes the call fail with
\* InvalidSchema, the message naming that node; a non-string key makes it
\* fail with InvalidSchema too
C25_DispatchOnKind ==
    Compiled =>
        LET v == arg.yaml
        IN  /\ v.kind = "String" => ret = Ok(to_json_schema(from_str(v.s)))
            /\ (v.kind = "Mapping" /\ ret.ok) =>
                    /\ ret.schema.type = "object"
                    /\ "properties" \in DOMAIN ret.schema
            /\ (v.kind = "Sequence" /\ ret.ok) =>
                    /\ Len(v.items) = 1
                    /\ ret.schema.type = "array"
                    /\ "items" \in DOMAIN ret.schema
            /\ v \in UnsupportedNodes(v) =>
                    /\ ~ret.ok /\ ret.err = "InvalidSchema"
                    /\ ret.value = v
            /\ UnsupportedNodes(v) # {} =>
                    /\ ~ret.ok /\ ret.err = "InvalidSchema"
                    /\ (~HasNonStringKey(v) /\ ~HasBadSequence(v)) =>
                            /\ "value" \in DOMAIN ret
                            /\ ret.value \in UnsupportedNodes(v)
            /\ (~ret.ok /\ "value" \in DOMAIN ret) =>
                    ret.value \in UnsupportedNodes(v)
            /\ HasNonStringKey(v) => (~ret.ok /\ ret.err = "InvalidSchema")
            /\ ret.ok =>
                    /\ UnsupportedNodes(v) = {}
                    /\ ~HasNonStringKey(v)
                    /\ ~HasBadSequence(v)

\* C25 witness: a null three levels deep has made the compilation of a
\* mapping fail with the error that names it
C25_Witness ==
    /\ Compiled /\ arg.yaml.kind = "Mapping"
    /\ Len(arg.yaml.entries) = 2
    /\ UnsupportedNodes(arg.yaml) = {YNull}
    /\ ret = ErrUnsupported(YNull)

-----------------------------------------------------------------------------
(* C28: where parse_schema_value puts `anyOf`, and what it makes optional *)

\* the node is a string whose trimmed form ends with `?`
OptionalString(value) ==
    value.kind = "String" /\ ends_with(Core(value.s), <<"?">>)

\* C28: a schema produced by parse_schema_value has a top-level `anyOf`
\* exactly when the YAML value is a string whose trimmed form ends with
\* `?`; a mapping field is left out of `required` exactly when its value
\* is such a string, so a field whose value is a mapping or a sequence is
\* always required
C28_AnyOfOnlyFromOptionalString ==
    (Compiled /\ ret.ok) =>
        /\ "anyOf" \in DOMAIN ret.schema <=> OptionalString(arg.yaml)
        /\ arg.yaml.kind = "Mapping" =>
              LET es == arg.yaml.entries
              IN  /\ \A i \in DOMAIN es :
                        (es[i][1].s \in Range(ret.schema.required))
                            <=> ~OptionalString(es[i][2])
                  /\ \A i \in DOMAIN es :
                        es[i][2].kind \in {"Mapping", "Sequence"}
                            => es[i][1].s \in Range(ret.schema.required)

\* C28 witness: a mapping with an optional string field and a field that
\* is a sequence of an optional item has been compiled
C28_Witness ==
    /\ Compiled /\ ret.ok /\ arg.yaml.kind = "Mapping"
    /\ Len(arg.yaml.entries) = 2
    /\ OptionalString(arg.yaml.entries[1][2])
    /\ arg.yaml.entries[2][2] = YSequence(<<YString(Str_string \o <<"?">>)>>)
    /\ ret.schema.required = <<arg.yaml.entries[2][1].s>>

-----------------------------------------------------------------------------
(* C26: what prompt_parser_validate_json leaves in its diagnostics slots *)

ValidateReturned ==
    op = "prompt_parser_validate_json" /\ "returned" \in DOMAIN ret

\* C26: whenever prompt_parser_validate_json returns false it has written
\* out_error_count, a number greater than zero, and out_errors, an array
\* of that many non-null messages; whenever it returns true it has written
\* the count 0 and a null out_errors
C26_FalseMeansDiagnostics ==
    ValidateReturned =>
        IF ret.returned
        THEN ret.out_error_count = Written(0) /\ ret.out_errors.null
        ELSE /\ ret.out_error_count.written
             /\ ret.out_error_count.v > 0
             /\ ~ret.out_errors.null
             /\ Len(ret.out_errors.pointee) = ret.out_error_count.v
             /\ \A i \in DOMAIN ret.out_errors.pointee :
                   ~ret.out_errors.pointee[i].null

-----------------------------------------------------------------------------
(* The commit walk of JjWorkspace::list_changes (src/snapshot) and of     *)
(* jj_list_changes (src/jj)                                               *)

\* commit graphs have this many commits
MaxCommits == 4
\* the largest limit a caller passes
MaxLimit == 3
\* limit.unwrap_or(50)
DefaultLimit == 50

Commits == 1..MaxCommits

\* commit 1 is the root; every other commit has one or two parents, which
\* are older commits
ParentLists(c) ==
    {q \in SeqsUpTo(1..(c - 1), 2) : q # <<>> /\ IsInjective(q)}

RECURSIVE GraphsOf(_)
\* the graphs of n commits, each one the list of its commits' parent lists
GraphsOf(n) ==
    IF n = 1 THEN {<<<<>>>>}
    ELSE {Append(g, q) : g \in GraphsOf(n - 1), q \in ParentLists(n)}

Graphs == GraphsOf(MaxCommits)

\* view.heads(): the commits that are nobody's parent
HeadsOf(g) == {c \in Commits : \A d \in Commits : c \notin Range(g[d])}

Name_main == "main"
Name_dev == "dev"

\* view.local_bookmarks(): `main` is absent, conflicted (as_normal() is
\* None) or points to a commit; `dev` is never there
BookmarkLists ==
    {<<>>, <<<<Name_main, None>>>>}
        \cup {<<<<Name_main, Some(c)>>>> : c \in Commits}

Repos ==
    UNION {{[parents |-> g, heads |-> h, bookmarks |-> b] :
                h \in IterOrders(HeadsOf(g)), b \in BookmarkLists} :
           g \in Graphs}

\* the pointer is not null
PointerTo(x) == [null |-> FALSE, pointee |-> x]

InitWalk ==
    /\ op = "none"
    /\ typedef = Pending
    /\ ret = Pending
    /\ locals = Pending
    /\ heap = EmptyHeap
    /\ \E repo \in Repos :
          \/ \E limit \in {None} \cup {Some(n) : n \in 0..MaxLimit},
                bookmark \in {None, Some(Name_main), Some(Name_dev)} :
                arg = [fn |-> "list_changes", repo |-> repo,
                       limit |-> limit, bookmark |-> bookmark]
          \/ \E limit \in 0..MaxLimit,
                bookmark \in {NULL, PointerTo(InvalidUtf8),
                              PointerTo(CStr(Name_main)),
                              PointerTo(CStr(Name_dev))},
                workspace \in {NULL, PointerTo([loads |-> TRUE]),
                               PointerTo([loads |-> FALSE])} :
                /\ workspace \in {NULL, PointerTo([loads |-> FALSE])}
                        => (limit = 0 /\ bookmark = NULL)
                /\ arg = [fn |-> "jj_list_changes", repo |-> repo,
                          workspace |-> workspace,
                          limit |-> limit, bookmark |-> bookmark]

\* the bookmark argument as the walk sees it
bookmark_str(bookmark) ==
    IF bookmark.null THEN None
    ELSE IF bookmark.pointee.utf8 THEN Some(bookmark.pointee.s)
    ELSE None

RECURSIVE bookmark_target(_, _, _)
\* the loop over view.local_bookmarks(): the stack it leaves
bookmark_target(bookmarks, i, bm) ==
    IF i > Len(bookmarks) THEN <<>>
    ELSE IF bookmarks[i][1] = bm
    THEN IF bookmarks[i][2].some THEN <<bookmarks[i][2].v>> ELSE <<>>
    ELSE bookmark_target(bookmarks, i + 1, bm)

\* the stack before the loop
initial_stack(repo, bookmark) ==
    IF bookmark.some THEN bookmark_target(repo.bookmarks, 1, bookmark.v)
    ELSE repo.heads

RECURSIVE push_unseen(_, _, _)
\* for parent_id in commit.parent_ids() { if !seen.contains(..) { push } }
push_unseen(stack, parent_ids, seen) ==
    IF parent_ids = <<>> THEN stack
    ELSE push_unseen(IF Head(parent_ids) \in seen THEN stack
                     ELSE Append(stack, Head(parent_ids)),
                     Tail(parent_ids), seen)

\* seen.insert(commit_id): whether the id was new
seen_insert(seen, commit_id) == commit_id \notin seen

\* commit_to_info of src/snapshot: a JjCommitInfo made of owned strings
commit_to_info_napi(repo, id) ==
    [id |-> id, parent_ids |-> repo.parents[id]]

\* commit_to_info of src/jj: a JjCommitInfo made of C strings, every one
\* of them allocated (unwrap_or_default() gives the empty string when the
\* text has a NUL), and of an array of parent ids unless there is none
commit_to_info(repo, id) ==
    LET parent_ids == [j \in DOMAIN repo.parents[id] |->
                            into_raw(repo.parents[id][j])]
    IN  [id |-> into_raw(id),
         change_id |-> into_raw("change_id"),
         description |-> into_raw("description"),
         author_name |-> into_raw("author.name"),
         author_email |-> into_raw("author.email"),
         committer_name |-> into_raw("committer.name"),
         committer_email |-> into_raw("committer.email"),
         parent_ids |-> IF Len(parent_ids) > 0 THEN into_raw(parent_ids)
                        ELSE NULL,
         parent_ids_len |-> Len(parent_ids)]

JjCommitArrayResult(commits, len, success, error_message) ==
    [commits |-> commits, len |-> len, success |-> success,
     error_message |-> error_message]

JjBookmarkArrayResult(bookmarks, len, success, error_message) ==
    [bookmarks |-> bookmarks, len |-> len, success |-> success,
     error_message |-> error_message]

JjStringArrayResult(strings, len, success, error_message) ==
    [strings |-> strings, len |-> len, success |-> success,
     error_message |-> error_message]

\* the fields of the jj JjCommitInfo that are C strings
JjCommitInfoStrings ==
    {"id", "change_id", "description", "author_name", "author_email",
     "committer_name", "committer_email"}

\* every block that a result structure of src/jj points to
JjBlocks(r) ==
    CStringBlock(r.error_message, "error_message", 0, "", 0)
    \cup (IF "commits" \in DOMAIN r /\ ~r.commits.null
          THEN {Block("commits", 0, "", 0)}
               \cup UNION {LET c == r.commits.pointee[i]
                           IN  IF c.null THEN {}
                               ELSE StructBlocks(c.pointee, TRUE, "commits",
                                                 i, JjCommitInfoStrings)
                                    \cup StringArrayBlocks(
                                            c.pointee.parent_ids,
                                            "commits", i, "parent_ids") :
                           i \in DOMAIN r.commits.pointee}
          ELSE {})
    \cup (IF "bookmarks" \in DOMAIN r /\ ~r.bookmarks.null
          THEN {Block("bookmarks", 0, "", 0)}
               \cup UNION {StructBlocks(r.bookmarks.pointee[i], FALSE,
                                        "bookmarks", i,
                                        {"name", "target_id"}) :
                           i \in DOMAIN r.bookmarks.pointee}
          ELSE {})
    \cup (IF "strings" \in DOMAIN r
          THEN StringArrayBlocks(r.strings, "strings", 0, "")
          ELSE {})

\* jj_list_bookmarks
jj_list_bookmarks(workspace, repo) ==
    IF workspace.null
    THEN JjBookmarkArrayResult(NULL, 0, FALSE, into_raw("Workspace is null"))
    ELSE IF ~workspace.pointee.loads
    THEN JjBookmarkArrayResult(NULL, 0, FALSE, into_raw("Failed to load"))
    ELSE LET bookmarks ==
                [i \in DOMAIN repo.bookmarks |->
                    [name |-> into_raw(repo.bookmarks[i][1]),
                     target_id |-> IF repo.bookmarks[i][2].some
                                   THEN into_raw(repo.bookmarks[i][2].v)
                                   ELSE NULL,
                     is_local |-> TRUE]]
             len == Len(bookmarks)
         IN  JjBookmarkArrayResult(
                IF len > 0 THEN into_raw(bookmarks) ELSE NULL,
                len, TRUE, NULL)

\* CommitId::try_from_hex on the revision text
try_from_hex(revision_str) ==
    IF revision_str.hex THEN Some(revision_str.id) ELSE None

\* the paths of the entries of the tree that are resolved files
RECURSIVE files_of(_)
files_of(entries) ==
    IF entries = <<>> THEN <<>>
    ELSE IF Head(entries).file
         THEN <<into_raw(Head(entries).path)>> \o files_of(Tail(entries))
         ELSE files_of(Tail(entries))

\* jj_list_files; `tree` holds the entries of the tree of each commit
jj_list_files(workspace, revision, repo, tree) ==
    LET failed(msg) == JjStringArrayResult(NULL, 0, FALSE, into_raw(msg))
    IN  IF workspace.null THEN failed("Workspace is null")
        ELSE IF revision.null THEN failed("Revision is null")
        ELSE IF ~revision.pointee.utf8 THEN failed("Invalid UTF-8: {}")
        ELSE IF ~workspace.pointee.loads THEN failed("Failed to load")
        ELSE LET id == try_from_hex(revision.pointee.s)
        IN  IF ~id.some THEN failed("Invalid commit ID: {}")
            ELSE IF id.v \notin DOMAIN repo.parents
            THEN failed("Failed to get commit: {}")
            ELSE LET files == files_of(tree[id.v])
                     len == Len(files)
                 IN  JjStringArrayResult(
                        IF len > 0 THEN into_raw(files) ELSE NULL,
                        len, TRUE, NULL)

\* the blocks that jj_string_free releases
jj_string_free(s) ==
    IF ~s.null THEN {Block("error_message", 0, "", 0)} ELSE {}

\* the blocks that jj_commit_info_free releases for the commit at index i
jj_commit_info_free(commit, i) ==
    IF commit.null THEN {}
    ELSE LET c == commit.pointee
             string(f) == IF ~c[f].null THEN {Block("commits", i, f, 0)}
                          ELSE {}
         IN  {Block("commits", i, "", 0)}
             \cup string("id") \cup string("change_id")
             \cup string("description")
             \cup string("author_name") \cup string("author_email")
             \cup string("committer_name") \cup string("committer_email")
             \cup (IF ~c.parent_ids.null
                   THEN {Block("commits", i, "parent_ids", 0)}
                        \cup {Block("commits", i, "parent_ids", j) :
                                j \in {k \in 1..c.parent_ids_len :
                                          ~c.parent_ids.pointee[k].null}}
                   ELSE {})

\* the blocks that jj_commit_array_free releases
jj_commit_array_free(commits, len) ==
    IF commits.null THEN {}
    ELSE {Block("commits", 0, "", 0)}
         \cup UNION {jj_commit_info_free(commits.pointee[i], i) :
                        i \in {k \in 1..len : ~commits.pointee[k].null}}

\* the blocks that jj_bookmark_array_free releases
jj_bookmark_array_free(bookmarks, len) ==
    IF bookmarks.null THEN {}
    ELSE {Block("bookmarks", 0, "", 0)}
         \cup UNION {(IF ~bookmarks.pointee[i].name.null
                      THEN {Block("bookmarks", i, "name", 0)} ELSE {})
                     \cup (IF ~bookmarks.pointee[i].target_id.null
                           THEN {Block("bookmarks", i, "target_id", 0)}
                           ELSE {}) :
                     i \in 1..len}

\* the blocks that jj_string_array_free releases
jj_string_array_free(strings, len) ==
    IF strings.null THEN {}
    ELSE {Block("strings", 0, "", 0)}
         \cup {Block("strings", 0, "", j) :
                  j \in {k \in 1..len : ~strings.pointee[k].null}}

\* the entry of the function up to the loop
Call_list_changes ==
    /\ op = "none"
    /\ arg.fn = "list_changes"
    /\ op' = "walking"
    /\ locals' = [limit |-> unwrap_or(arg.limit, DefaultLimit),
                  changes |-> <<>>, seen |-> {},
                  stack |-> initial_stack(arg.repo, arg.bookmark)]
    /\ UNCHANGED <<arg, typedef, ret, heap>>

Call_jj_list_changes ==
    /\ op = "none"
    /\ arg.fn = "jj_list_changes"
    /\ IF arg.workspace.null
       THEN /\ op' = "jj_list_changes"
            /\ ret' = JjCommitArrayResult(NULL, 0, FALSE,
                                          into_raw("Workspace is null"))
            /\ heap' = allocate(heap, JjBlocks(ret'))
            /\ UNCHANGED locals
       ELSE IF ~arg.workspace.pointee.loads
       THEN /\ op' = "jj_list_changes"
            /\ ret' = JjCommitArrayResult(NULL, 0, FALSE,
                                          into_raw("Failed to load"))
            /\ heap' = allocate(heap, JjBlocks(ret'))
            /\ UNCHANGED locals
       ELSE /\ op' = "walking"
            /\ locals' = [limit |-> arg.limit, changes |-> <<>>,
                          seen |-> {},
                          stack |-> initial_stack(arg.repo,
                                        bookmark_str(arg.bookmark))]
            /\ UNCHANGED <<ret, heap>>
    /\ UNCHANGED <<arg, typedef>>

\* one turn of `while let Some(commit_id) = stack.pop()` that does not
\* leave the loop
Walk_step ==
    /\ op = "walking"
    /\ locals.stack # <<>>
    /\ Len(locals.changes) < locals.limit
    /\ LET commit_id == locals.stack[Len(locals.stack)]
           popped == Front(locals.stack)
       IN  IF ~seen_insert(locals.seen, commit_id)
           THEN locals' = [locals EXCEPT !.stack = popped]
           ELSE LET seen == locals.seen \cup {commit_id}
                IN  locals' =
                      [locals EXCEPT
                        !.seen = seen,
                        !.changes = Append(@,
                            IF arg.fn = "list_changes"
                            THEN commit_to_info_napi(arg.repo, commit_id)
                            ELSE into_raw(commit_to_info(arg.repo,
                                                         commit_id))),
                        !.stack = push_unseen(popped,
                                      arg.repo.parents[commit_id], seen)]
    /\ UNCHANGED <<op, arg, typedef, ret, heap>>

\* the loop is left, by exhaustion of the stack or by the limit, and the
\* function returns
Walk_return ==
    /\ op = "walking"
    /\ locals.stack = <<>> \/ Len(locals.changes) >= locals.limit
    /\ op' = arg.fn
    /\ ret' = IF arg.fn = "list_changes" THEN OkList(locals.changes)
              ELSE LET len == Len(locals.changes)
                   IN  JjCommitArrayResult(
                          IF len > 0 THEN into_raw(locals.changes)
                          ELSE NULL,
                          len, TRUE, NULL)
    /\ heap' = IF arg.fn = "list_changes" THEN heap
               ELSE allocate(heap, JjBlocks(ret'))
    /\ locals' = Pending
    /\ UNCHANGED <<arg, typedef>>

NextWalk ==
    \/ Call_list_changes
    \/ Call_jj_list_changes
    \/ Walk_step
    \/ Walk_return

SpecWalk == InitWalk /\ [][NextWalk]_vars

\* the walk is one thread of control: it goes on as long as it can
SpecWalkFair == SpecWalk /\ WF_vars(NextWalk)

-----------------------------------------------------------------------------
(* C30: what the commit walk returns *)

WalkReturned == op \in {"list_changes", "jj_list_changes"}

RECURSIVE Ancestors(_, _, _)
\* the commits reachable from the set `from` through parent links
Ancestors(g, from, n) ==
    IF n = 0 THEN from
    ELSE Ancestors(g, from \cup UNION {Range(g[c]) : c \in from}, n - 1)

\* a bookmark argument was passed
BookmarkGiven ==
    IF arg.fn = "list_changes" THEN arg.bookmark.some ELSE ~arg.bookmark.null

\* the commits the claim lets the walk start from
StartSet ==
    IF ~BookmarkGiven THEN Range(arg.repo.heads)
    ELSE {c \in Commits :
            \E i \in DOMAIN arg.repo.bookmarks :
                /\ arg.repo.bookmarks[i][2] = Some(c)
                /\ IF arg.fn = "list_changes"
                   THEN arg.bookmark = Some(arg.repo.bookmarks[i][1])
                   ELSE arg.bookmark =
                            PointerTo(CStr(arg.repo.bookmarks[i][1]))}

LimitGiven ==
    IF arg.fn = "list_changes" THEN unwrap_or(arg.limit, DefaultLimit)
    ELSE arg.limit

\* the ids of the returned commits, in order
ReturnedIds ==
    IF arg.fn = "list_changes"
    THEN [i \in DOMAIN ret.v |-> ret.v[i].id]
    ELSE IF ret.commits.null THEN <<>>
    ELSE [i \in DOMAIN ret.commits.pointee |->
            ret.commits.pointee[i].pointee.id.pointee]

\* at most `limit` commits, none twice, and the array and its length agree
WalkBounded ==
    /\ Len(ReturnedIds) <= LimitGiven
    /\ IsInjective(ReturnedIds)
    /\ arg.fn = "jj_list_changes" =>
            /\ ret.len = Len(ReturnedIds)
            /\ ret.commits.null <=> ret.len = 0

\* every returned commit is reachable from the start set
WalkFromStartSet ==
    Range(ReturnedIds) \subseteq
        Ancestors(arg.repo.parents, StartSet, MaxCommits)

\* C30: the walk terminates on every commit graph, and returns at most
\* `limit` commits (none when limit is 0), none of them twice, each one
\* reachable through parent links from the start set (all heads, or the
\* target of the bookmark when a bookmark is given, nothing for an unknown
\* bookmark), with len the number of returned commits and a null array
\* exactly when len is 0
C30_WalkContract ==
    /\ <>WalkReturned
    /\ [](WalkReturned => (WalkBounded /\ WalkFromStartSet))

-----------------------------------------------------------------------------
(* Ownership: the caller releases what the constructing calls handed out *)

\* trees have at most this many entries
MaxEntries == 2

TreeEntries ==
    SeqsUpTo({[path |-> "a", file |-> TRUE], [path |-> "d", file |-> FALSE]},
             MaxEntries)

Workspaces == {NULL, PointerTo([loads |-> TRUE]), PointerTo([loads |-> FALSE])}

Revisions ==
    {NULL, PointerTo(InvalidUtf8),
     PointerTo(CStr([hex |-> FALSE, id |-> 0])),
     PointerTo(CStr([hex |-> TRUE, id |-> 0])),
     PointerTo(CStr([hex |-> TRUE, id |-> 1]))}

\* two bookmarks, the first one conflicted
TwoBookmarks == <<<<Name_dev, None>>, <<Name_main, Some(1)>>>>

InitOwn ==
    \/ InitFfi
    \/ /\ op = "none"
       /\ typedef = Pending
       /\ ret = Pending
       /\ locals = Pending
       /\ heap = EmptyHeap
       /\ \E repo \in Repos, workspace \in Workspaces :
             \/ \E limit \in {1, MaxLimit} :
                   /\ repo.bookmarks = <<>>
                   /\ workspace.null => limit = 1
                   /\ arg = [fn |-> "jj_list_changes", repo |-> repo,
                             workspace |-> workspace, limit |-> limit,
                             bookmark |-> NULL]
             \/ /\ repo.heads = <<MaxCommits>>
                /\ \E bookmarks \in {repo.bookmarks, TwoBookmarks} :
                      arg = [fn |-> "jj_list_bookmarks",
                             repo |-> [repo EXCEPT !.bookmarks = bookmarks],
                             workspace |-> workspace]
             \/ /\ repo.heads = <<MaxCommits>>
                /\ repo.bookmarks = <<>>
                /\ \E revision \in Revisions, entries \in TreeEntries :
                      arg = [fn |-> "jj_list_files", repo |-> repo,
                             workspace |-> workspace, revision |-> revision,
                             tree |-> [c \in Commits |-> entries]]

Call_jj_list_bookmarks ==
    /\ op = "none"
    /\ arg.fn = "jj_list_bookmarks"
    /\ op' = "jj_list_bookmarks"
    /\ ret' = jj_list_bookmarks(arg.workspace, arg.repo)
    /\ heap' = allocate(heap, JjBlocks(ret'))
    /\ UNCHANGED <<arg, typedef, locals>>

Call_jj_list_files ==
    /\ op = "none"
    /\ arg.fn = "jj_list_files"
    /\ op' = "jj_list_files"
    /\ ret' = jj_list_files(arg.workspace, arg.revision, arg.repo, arg.tree)
    /\ heap' = allocate(heap, JjBlocks(ret'))
    /\ UNCHANGED <<arg, typedef, locals>>

\* a call has returned, and its result has the slot
Holds(slot) == op \notin {"none", "walking"} /\ slot \in DOMAIN ret

\* the caller releases a handle once: when it has not released it yet, or
\* when the handle is null
Releasable(slot) ==
    Holds(slot) /\ (ret[slot].null \/ Block(slot, 0, "", 0) \in heap.live)

Call_prompt_parser_free_definition ==
    /\ Releasable("out_def")
    /\ op' = "prompt_parser_free_definition"
    /\ heap' = deallocate(heap, prompt_parser_free_definition(ret.out_def))
    /\ UNCHANGED <<arg, typedef, ret, locals>>

Call_prompt_parser_free_error ==
    /\ Releasable("out_error")
    /\ op' = "prompt_parser_free_error"
    /\ heap' = deallocate(heap, prompt_parser_free_error(ret.out_error))
    /\ UNCHANGED <<arg, typedef, ret, locals>>

Call_prompt_parser_free_validation_errors ==
    /\ Releasable("out_errors")
    /\ op' = "prompt_parser_free_validation_errors"
    /\ heap' = deallocate(heap,
                  prompt_parser_free_validation_errors(ret.out_errors,
                                                       ret.out_error_count))
    /\ UNCHANGED <<arg, typedef, ret, locals>>

Call_prompt_parser_free_string ==
    /\ Releasable("out_rendered")
    /\ op' = "prompt_parser_free_string"
    /\ heap' = deallocate(heap, prompt_parser_free_string(ret.out_rendered))
    /\ UNCHANGED <<arg, typedef, ret, locals>>

Call_jj_commit_array_free ==
    /\ Releasable("commits")
    /\ op' = "jj_commit_array_free"
    /\ heap' = deallocate(heap, jj_commit_array_free(ret.commits, ret.len))
    /\ UNCHANGED <<arg, typedef, ret, locals>>

Call_jj_bookmark_array_free ==
    /\ Releasable("bookmarks")
    /\ op' = "jj_bookmark_array_free"
    /\ heap' = deallocate(heap,
                          jj_bookmark_array_free(ret.bookmarks, ret.len))
    /\ UNCHANGED <<arg, typedef, ret, locals>>

Call_jj_string_array_free ==
    /\ Releasable("strings")
    /\ op' = "jj_string_array_free"
    /\ heap' = deallocate(heap, jj_string_array_free(ret.strings, ret.len))
    /\ UNCHANGED <<arg, typedef, ret, locals>>

Call_jj_string_free ==
    /\ Releasable("error_message")
    /\ op' = "jj_string_free"
    /\ heap' = deallocate(heap, jj_string_free(ret.error_message))
    /\ UNCHANGED <<arg, typedef, ret, locals>>

NextOwn ==
    \/ Call_prompt_parser_parse
    \/ Call_prompt_parser_validate_json
    \/ Call_prompt_parser_render_template
    \/ Call_jj_list_changes
    \/ Walk_step
    \/ Walk_return
    \/ Call_jj_list_bookmarks
    \/ Call_jj_list_files
    \/ Call_prompt_parser_free_definition
    \/ Call_prompt_parser_free_error
    \/ Call_prompt_parser_free_validation_errors
    \/ Call_prompt_parser_free_string
    \/ Call_jj_commit_array_free
    \/ Call_jj_bookmark_array_free
    \/ Call_jj_string_array_free
    \/ Call_jj_string_free

SpecOwn == InitOwn /\ [][NextOwn]_vars

-----------------------------------------------------------------------------
(* C21: the ownership protocol *)

\* the slots through which results hand out what they allocated
HandleSlots ==
    {"out_def", "out_error", "out_errors", "out_rendered", "commits",
     "bookmarks", "strings", "error_message"}

\* the release operation of each slot
ReleaseOf ==
    [out_def |-> "prompt_parser_free_definition",
     out_error |-> "prompt_parser_free_error",
     out_errors |-> "prompt_parser_free_validation_errors",
     out_rendered |-> "prompt_parser_free_string",
     commits |-> "jj_commit_array_free",
     bookmarks |-> "jj_bookmark_array_free",
     strings |-> "jj_string_array_free",
     error_message |-> "jj_string_free"]

\* a call has returned and every handle it returned has been released
AllReleased ==
    /\ op \notin {"none", "walking"}
    /\ \A slot \in HandleSlots : Block(slot, 0, "", 0) \notin heap.live

\* the step is a release operation acting on a null handle
NullRelease ==
    \E slot \in HandleSlots :
        /\ op' = ReleaseOf[slot]
        /\ op' # op
        /\ slot \in DOMAIN ret
        /\ ret[slot].null

\* C21: one call of the matching release operation releases a structure
\* with all the strings and arrays it owns, so that once every handle a
\* call returned has been released once, no allocation is live and no
\* release has touched a block that was not; a release operation given a
\* null handle changes nothing
C21_Ownership ==
    /\ [](~heap.faulted /\ (AllReleased => heap.live = {}))
    /\ [][NullRelease => heap' = heap]_vars

\* C21 witness: an array of two commits, one of them with parents, has
\* been released and nothing is live
C21_Witness ==
    /\ op = "jj_commit_array_free"
    /\ ret.len >= 2
    /\ \E i \in 1..ret.len : ~ret.commits.pointee[i].pointee.parent_ids.null
    /\ heap.live = {}
    /\ ~heap.faulted

-----------------------------------------------------------------------------
(* Concurrent invocations of the operations of the library *)

\* the number of invocations that run at the same time
MaxThreads == 2

Threads == 1..MaxThreads

ConcDocs == {BuildDoc(<<"a">>, <<"a", " ", "a">>), <<"a">>}

ConcYaml(name) ==
    [wellformed |-> TRUE, name |-> name, client |-> None, type |-> None,
     inputs |-> Some(YMapping(<<<<YString(Str_a), YString(Str_string)>>>>)),
     output |-> None, tools |-> None, max_turns |-> Some(3),
     extends |-> None]

ConcTemplates ==
    {<<"H">> \o <<"{", "{", " ">> \o Name_n \o <<" ", "}", "}">>,
     <<"{", "{">> \o Name_m \o <<"}", "}", "!", LF>>,
     <<"{", "{">>}

Jobs ==
    {[fn |-> "split_frontmatter", content |-> d] : d \in ConcDocs}
    \cup {[fn |-> "parse_prompt_file", content |-> d, yaml |-> ConcYaml(n)] :
            <<d, n>> \in {<<BuildDoc(<<"a">>, <<"a", " ", "a">>),
                            Some("SimplePrompt")>>,
                          <<BuildDoc(<<"a">>, <<"a", " ", "a">>), Some("")>>,
                          <<<<"a">>, Some("SimplePrompt")>>}}
    \cup {[fn |-> f, schema |-> sc, data |-> JInteger(30)] :
            f \in {"validate_json", "validate_with_details"},
            sc \in {[type |-> "string"], [type |-> "objekt"]}}
    \cup {[fn |-> "render_template", template_str |-> t,
           inputs |-> (Name_n :> <<"W">>)] : t \in ConcTemplates}

\* the Environment that the invocation of render_template by thread t
\* works on: the local variable `env` of that invocation
\* Variant: one Environment for all invocations
environment_shared(t) == 1

environment(t) == t

\* what is left of parse_prompt_file after split_frontmatter has returned
\* the body
parse_after_split(body, yaml) ==
    LET fm == deserialize_frontmatter(yaml)
    IN  IF ~fm.ok THEN fm
        ELSE IF fm.v.name = "" THEN Err("MissingField", "name")
        ELSE LET inputs_schema == parse_schema(fm.v.inputs)
        IN  IF ~inputs_schema.ok THEN inputs_schema
        ELSE LET output_schema == parse_schema(fm.v.output)
        IN  IF ~output_schema.ok THEN output_schema
        ELSE [ok |-> TRUE,
              def |-> PromptDefinition(fm.v, inputs_schema.schema,
                                       output_schema.schema, body)]

\* what is left of validate_json and of validate_with_details after the
\* schema has been compiled
validate_compiled(fn, compiled, data) ==
    LET errors == validate(compiled, data, <<>>)
    IN  IF fn = "validate_json"
        THEN IF errors # <<>>
             THEN Err("ValidationFailed",
                      join([i \in DOMAIN errors |-> to_string(errors[i])],
                           <<", ">>))
             ELSE OkUnit
        ELSE OkList([i \in DOMAIN errors |->
                       <<"path: ">> \o pointer(errors[i].instance_path)
                       \o <<", error: ">> \o to_string(errors[i])])

InitConc ==
    /\ op = "none"
    /\ typedef = Pending
    /\ heap = EmptyHeap
    /\ \E jobs \in [Threads -> Jobs], keep \in BOOLEAN :
          arg = [jobs |-> jobs, keep_trailing_newline |-> keep]
    /\ ret = [t \in Threads |-> Pending]
    /\ locals = [frames |-> [t \in Threads |-> [pc |-> "start"]],
                 envs |-> [t \in Threads |->
                             Environment_new(arg.keep_trailing_newline)]]

\* thread t returns r
Return(t, r, fn) ==
    /\ ret' = [ret EXCEPT ![t] = r]
    /\ locals' = [locals EXCEPT !.frames[t] = [pc |-> "done"]]
    /\ op' = fn

\* thread t goes on to pc with its local variable
Goto(t, pc, local, fn) ==
    /\ locals' = [locals EXCEPT !.frames[t] = [pc |-> pc, local |-> local]]
    /\ op' = fn
    /\ UNCHANGED ret

Step_split_frontmatter(t) ==
    /\ arg.jobs[t].fn = "split_frontmatter"
    /\ locals.frames[t].pc = "start"
    /\ Return(t, split_frontmatter(arg.jobs[t].content), arg.jobs[t].fn)
    /\ UNCHANGED <<arg, typedef, heap>>

\* parse_prompt_file up to the return of split_frontmatter
Step_parse_split(t) ==
    /\ arg.jobs[t].fn = "parse_prompt_file"
    /\ locals.frames[t].pc = "start"
    /\ LET sp == split_frontmatter(arg.jobs[t].content)
       IN  IF ~sp.ok THEN Return(t, sp, arg.jobs[t].fn)
           ELSE Goto(t, "split", sp.body, arg.jobs[t].fn)
    /\ UNCHANGED <<arg, typedef, heap>>

Step_parse_assemble(t) ==
    /\ arg.jobs[t].fn = "parse_prompt_file"
    /\ locals.frames[t].pc = "split"
    /\ Return(t, parse_after_split(locals.frames[t].local, arg.jobs[t].yaml),
              arg.jobs[t].fn)
    /\ UNCHANGED <<arg, typedef, heap>>

\* validate_json and validate_with_details up to the compiled schema
Step_compile(t) ==
    /\ arg.jobs[t].fn \in {"validate_json", "validate_with_details"}
    /\ locals.frames[t].pc = "start"
    /\ LET compiled == compile(arg.jobs[t].schema)
       IN  IF ~compiled.ok
           THEN Return(t, Err("InvalidSchema", compiled.e), arg.jobs[t].fn)
           ELSE Goto(t, "compiled", compiled.v, arg.jobs[t].fn)
    /\ UNCHANGED <<arg, typedef, heap>>

Step_validate(t) ==
    /\ arg.jobs[t].fn \in {"validate_json", "validate_with_details"}
    /\ locals.frames[t].pc = "compiled"
    /\ Return(t, validate_compiled(arg.jobs[t].fn, locals.frames[t].local,
                                   arg.jobs[t].data),
              arg.jobs[t].fn)
    /\ UNCHANGED <<arg, typedef, heap>>

\* let mut env = Environment::new(); env.add_template("prompt", ..)
Step_add_template(t) ==
    /\ arg.jobs[t].fn = "render_template"
    /\ locals.frames[t].pc = "start"
    /\ LET added == add_template(Environment_new(arg.keep_trailing_newline),
                                 "prompt", arg.jobs[t].template_str)
       IN  IF ~added.ok
           THEN Return(t, Err("TemplateCompile", error_to_string(added.e)),
                       arg.jobs[t].fn)
           ELSE /\ locals' = [locals EXCEPT
                                !.frames[t] = [pc |-> "added"],
                                !.envs[environment(t)] = added.v]
                /\ op' = arg.jobs[t].fn
                /\ UNCHANGED ret
    /\ UNCHANGED <<arg, typedef, heap>>

Step_get_template(t) ==
    /\ arg.jobs[t].fn = "render_template"
    /\ locals.frames[t].pc = "added"
    /\ LET template == get_template(locals.envs[environment(t)], "prompt")
       IN  IF ~template.ok
           THEN Return(t, Err("TemplateCompile",
                              error_to_string(template.e)), arg.jobs[t].fn)
           ELSE Goto(t, "got", template.v, arg.jobs[t].fn)
    /\ UNCHANGED <<arg, typedef, heap>>

Step_render(t) ==
    /\ arg.jobs[t].fn = "render_template"
    /\ locals.frames[t].pc = "got"
    /\ LET rendered == render(locals.frames[t].local, arg.jobs[t].inputs)
       IN  Return(t, IF ~rendered.ok
                     THEN Err("TemplateCompile", error_to_string(rendered.e))
                     ELSE OkString(rendered.v),
                  arg.jobs[t].fn)
    /\ UNCHANGED <<arg, typedef, heap>>

NextConc ==
    \E t \in Threads :
        \/ Step_split_frontmatter(t)
        \/ Step_parse_split(t)
        \/ Step_parse_assemble(t)
        \/ Step_compile(t)
        \/ Step_validate(t)
        \/ Step_add_template(t)
        \/ Step_get_template(t)
        \/ Step_render(t)

SpecConc == InitConc /\ [][NextConc]_vars

-----------------------------------------------------------------------------
(* C22: invocations do not interfere *)

\* what the invocation returns when nothing else runs
Alone(job) ==
    CASE job.fn = "split_frontmatter" -> split_frontmatter(job.content)
      [] job.fn = "parse_prompt_file" ->
            parse_prompt_file(job.content, job.yaml)
      [] job.fn = "validate_json" -> validate_json(job.schema, job.data)
      [] job.fn = "validate_with_details" ->
            validate_with_details(job.schema, job.data)
      [] job.fn = "render_template" ->
            render_template(job.template_str, job.inputs,
                            Environment_new(arg.keep_trailing_newline))

Done(t) == locals.frames[t].pc = "done"

\* C22: under every interleaving of the steps of concurrent invocations of
\* split_frontmatter, parse_prompt_file, validate_json,
\* validate_with_details and render_template, each invocation returns what
\* it returns when it runs alone on the same inputs, and no step changes
\* an input
C22_NoInterference ==
    /\ [](\A t \in Threads : Done(t) => ret[t] = Alone(arg.jobs[t]))
    /\ [][arg' = arg]_vars

\* C22 witness: a whole invocation of render_template has run between two
\* steps of another one on a different template
C22_Witness ==
    /\ arg.jobs[1].fn = "render_template"
    /\ arg.jobs[2].fn = "render_template"
    /\ arg.jobs[1].template_str # arg.jobs[2].template_str
    /\ locals.frames[1].pc = "added"
    /\ Done(2) /\ ret[2].ok

=============================================================================
